---- MODULE Spec2Model ----
(***************************************************************************)
(* A model of the py_lexer scanner (src/src/lexer.rs): the InternalLexer   *)
(* state machine that turns physical lines into (line, token-or-error)     *)
(* items, with its indentation stack, dedent counter and bracket depth.    *)
(*                                                                         *)
(* Characters are one-character strings, a physical line is a sequence of  *)
(* characters, and a lexeme is a string built by \o.  Option<T> is a       *)
(* sequence of length 0 (None) or 1 (Some).                                *)
(***************************************************************************)
EXTENDS Integers, Sequences, FiniteSets, TLC

(***************************************************************************)
(* Bounds of the model.                                                    *)
(***************************************************************************)
\* the longest input, in physical lines
MaxLines == 3
\* the widest run of leading blanks of an input line
MaxIndent == 3
\* the most characters after the leading blanks of an input line
MaxBody == 1
MaxJoinLines == 3
\* the length of the generated number texts
MaxNumber == 3
\* the length of the generated operator texts
MaxSymbol == 3
\* the length of the generated runs of leading whitespace
MaxBlanks == 4
\* the length of the generated names
MaxWord == 3
\* the digits after \x, \u and \U in the generated escapes
MaxHex == 5
\* the lines of the generated indented texts
MaxLayout == 4
\* the length of the iterators under a DoublePeekable
MaxItems == 4

(***************************************************************************)
(* Program constants.                                                      *)
(***************************************************************************)
TAB_STOP_SIZE == 8
\* a u32 is kept as two 16-bit halves (hi, lo): its wrap-around stays exact
\* with integers narrower than 2^32
HalfWord == 65536

NoneOpt == <<>>
Some(x) == <<x>>

(***************************************************************************)
(* u32 arithmetic of open_braces.                                          *)
(***************************************************************************)
u32_zero == [hi |-> 0, lo |-> 0]
u32_max == [hi |-> HalfWord - 1, lo |-> HalfWord - 1]
u32_is_zero(x) == x.hi = 0 /\ x.lo = 0

\* x + 1 modulo 2^32
u32_wrapping_inc(x) ==
   IF x.lo = HalfWord - 1
   THEN [hi |-> (x.hi + 1) % HalfWord, lo |-> 0]
   ELSE [hi |-> x.hi, lo |-> x.lo + 1]

\* x - 1 modulo 2^32
u32_wrapping_dec(x) ==
   IF x.lo = 0
   THEN [hi |-> (x.hi - 1) % HalfWord, lo |-> HalfWord - 1]
   ELSE [hi |-> x.hi, lo |-> x.lo - 1]

(***************************************************************************)
(* Character classes: the ASCII part of the Unicode predicates the code    *)
(* uses, and two characters beyond ASCII, U+00E9 (a letter) and U+20AC (a  *)
(* currency sign).                                                         *)
(***************************************************************************)
NonAscii == {"é", "€"}
LowerCase == {"a", "b", "c", "d", "e", "f", "g", "h", "i", "j", "k", "l", "m",
              "n", "o", "p", "q", "r", "s", "t", "u", "v", "w", "x", "y", "z"}
UpperCase == {"A", "B", "C", "D", "E", "F", "G", "H", "I", "J", "K", "L", "M",
              "N", "O", "P", "Q", "R", "S", "T", "U", "V", "W", "X", "Y", "Z"}
DecDigits == {"0", "1", "2", "3", "4", "5", "6", "7", "8", "9"}
OctDigits == {"0", "1", "2", "3", "4", "5", "6", "7"}
HexDigits == DecDigits \cup {"a", "b", "c", "d", "e", "f"}
                       \cup {"A", "B", "C", "D", "E", "F"}

\* c.is_digit(radix), as the set of the characters it accepts; radix 1 is
\* what build_zero_prefixed_number passes for a run of zeros
DigitsOf(radix) ==
   CASE radix = 1 -> {"0"}
     [] radix = 2 -> {"0", "1"}
     [] radix = 8 -> OctDigits
     [] radix = 10 -> DecDigits
     [] radix = 16 -> HexDigits

is_space(c) == c = " " \/ c = "\t" \/ c = "\f" \/ c = "\r"
XidStart == LowerCase \cup UpperCase \cup {"_", "é"}
XidContinue == LowerCase \cup UpperCase \cup DecDigits \cup {"_", "é"}
is_xid_start(c) == c \in XidStart
is_xid_continue(c) == c \in XidContinue

(***************************************************************************)
(* MultiPeekable<Chars>: the remaining characters of a line.               *)
(***************************************************************************)
peek_at(chars, n) == IF Len(chars) > n THEN Some(chars[n + 1]) ELSE NoneOpt
peek(chars) == peek_at(chars, 0)
\* chars.peek_at(n).map_or(false, |&c| c == k)
peek_is(chars, n, k) == Len(chars) > n /\ chars[n + 1] = k
\* chars.peek_at(n).map_or(false, |&c| predicate(c)), the predicate given
\* as the set of the characters it accepts
peek_in(chars, n, accepted) == Len(chars) > n /\ chars[n + 1] \in accepted
\* chars.next(), as the rest of the characters
advance(chars) == IF chars = <<>> THEN <<>> ELSE Tail(chars)

(***************************************************************************)
(* Tokens and errors (src/src/tokens.rs, src/src/errors.rs).               *)
(***************************************************************************)
Tok(kind) == [ok |-> TRUE, kind |-> kind, text |-> "", data |-> <<>>]
TokText(kind, text) ==
   [ok |-> TRUE, kind |-> kind, text |-> text, data |-> <<>>]
\* String(String) and Bytes(Vec<u8>): the content as code points or bytes
TokData(kind, data) ==
   [ok |-> TRUE, kind |-> kind, text |-> "", data |-> data]
Err(kind) == [ok |-> FALSE, kind |-> kind, text |-> "", data |-> <<>>]
ErrText(kind, text) ==
   [ok |-> FALSE, kind |-> kind, text |-> text, data |-> <<>>]
\* (line_number, ResultToken)
Item(number, res) == [line |-> number, ok |-> res.ok, kind |-> res.kind,
                      text |-> res.text, data |-> res.data]

with_equal(kind) ==
   CASE kind = "Plus" -> "AssignPlus"
     [] kind = "Minus" -> "AssignMinus"
     [] kind = "Times" -> "AssignTimes"
     [] kind = "Exponent" -> "AssignExponent"
     [] kind = "Divide" -> "AssignDivide"
     [] kind = "DivideFloor" -> "AssignDivideFloor"
     [] kind = "BitAnd" -> "AssignBitAnd"
     [] kind = "BitOr" -> "AssignBitOr"
     [] kind = "BitXor" -> "AssignBitXor"
     [] kind = "Mod" -> "AssignMod"
     [] kind = "At" -> "AssignAt"
     [] kind = "Assign" -> "EQ"
     [] kind = "LT" -> "LE"
     [] kind = "Lshift" -> "AssignLshift"
     [] kind = "GT" -> "GE"
     [] kind = "Rshift" -> "AssignRshift"
     [] OTHER -> kind

KEYWORDS ==
   << <<"False", "False">>, <<"None", "None">>, <<"True", "True">>,
      <<"and", "And">>, <<"as", "As">>, <<"assert", "Assert">>,
      <<"break", "Break">>, <<"class", "Class">>,
      <<"continue", "Continue">>, <<"def", "Def">>, <<"del", "Del">>,
      <<"elif", "Elif">>, <<"else", "Else">>, <<"except", "Except">>,
      <<"finally", "Finally">>, <<"for", "For">>, <<"from", "From">>,
      <<"global", "Global">>, <<"if", "If">>, <<"import", "Import">>,
      <<"in", "In">>, <<"is", "Is">>, <<"lambda", "Lambda">>,
      <<"nonlocal", "Nonlocal">>, <<"not", "Not">>, <<"or", "Or">>,
      <<"pass", "Pass">>, <<"raise", "Raise">>, <<"return", "Return">>,
      <<"try", "Try">>, <<"while", "While">>, <<"with", "With">>,
      <<"yield", "Yield">> >>

\* a keyword found at the start of a longer run
keyword_lookup_by_prefix(token_str) ==
   LET starts(i) ==
          /\ Len(KEYWORDS[i][1]) <= Len(token_str)
          /\ KEYWORDS[i][1] = SubSeq(token_str, 1, Len(KEYWORDS[i][1]))
   IN  IF \E i \in 1..Len(KEYWORDS) : starts(i)
       THEN Tok(KEYWORDS[CHOOSE i \in 1..Len(KEYWORDS) : starts(i)][2])
       ELSE TokText("Identifier", token_str)

keyword_lookup(token_str) ==
   IF \E i \in 1..Len(KEYWORDS) : KEYWORDS[i][1] = token_str
   THEN Tok(KEYWORDS[CHOOSE i \in 1..Len(KEYWORDS) :
                       KEYWORDS[i][1] = token_str][2])
   ELSE TokText("Identifier", token_str)

(***************************************************************************)
(* Indentation width of a physical line.                                   *)
\* a tab that always adds a whole tab stop
determine_spaces_whole(char_count, tab_stop_size) == tab_stop_size

(***************************************************************************)
determine_spaces(char_count, tab_stop_size) ==
   tab_stop_size - (char_count % tab_stop_size)

process_character(count, c) ==
   IF c = "\t" THEN count + determine_spaces(count, TAB_STOP_SIZE)
   ELSE count + 1

RECURSIVE count_indentation_from(_, _, _)
count_indentation_from(chars, count, spaces) ==
   IF chars # <<>> /\ is_space(Head(chars))
   THEN count_indentation_from(Tail(chars),
           process_character(count, Head(chars)),
           Append(spaces, Head(chars)))
   ELSE [count |-> count, spaces |-> spaces, chars |-> chars]

\* (count, spaces), and the characters left in the iterator
count_indentation(chars) == count_indentation_from(chars, 0, <<>>)

\* the closure of InternalLexer::new that turns the n-th raw line into a Line
new_line(n, raw) ==
   LET ci == count_indentation(raw)
   IN  [number |-> n, indentation |-> ci.count,
        leading_spaces |-> ci.spaces, chars |-> ci.chars]

(***************************************************************************)
(* The scanner.  A lexer state s is the record of InternalLexer's fields:  *)
(*   indent_stack, dedent_count, open_braces, and the line iterator as     *)
(*   lines (the raw lines it holds and has not produced yet), closed (no   *)
(*   line will be added to them: its source is at its end) and taken (how  *)
(*   many lines it has produced, the (1..) counter zipped to it);          *)
(* pending, the literal that a suspended call is in the middle of;         *)
(* and three fields about the call itself: overflowed (a u32 operation of  *)
(* the call overflowed: a build with overflow checks panics there, any     *)
(* other build goes on with the wrapped value, which is what the functions *)
(* compute), radix_one (the call evaluated char::is_digit(1): a standard   *)
(* library that requires a radix of 2 at least panics there, an older one  *)
(* accepts the digit 0, which is what the functions compute) and panicked  *)
(* (the message of the panic the call reached, or "" for none).            *)
(*                                                                         *)
(* The scanning functions return (Option<item>, Option<Line>) like the     *)
(* code, together with the updated lexer state.  The iterator is lazy:     *)
(* when a function asks it for a line that its source has not supplied     *)
(* yet, the call is suspended inside lines.next() and the function returns *)
(* with wait set to the place to resume from.  On a closed iterator this   *)
(* never happens and each function is the whole call of the code.          *)
(***************************************************************************)
Ret(s, item, line) == [s |-> s, item |-> item, line |-> line, wait |-> "no"]
Suspended(s, where) ==
   [s |-> s, item |-> NoneOpt, line |-> NoneOpt, wait |-> where]
Panic(s, message) ==
   [s |-> [s EXCEPT !.panicked = message], item |-> NoneOpt, line |-> NoneOpt,
    wait |-> "no"]

\* self.lines.next()
lines_next(s) ==
   IF s.lines # <<>>
   THEN [s |-> [s EXCEPT !.lines = Tail(@), !.taken = @ + 1],
         line |-> Some(new_line(s.taken + 1, Head(s.lines))),
         ready |-> TRUE]
   ELSE [s |-> s, line |-> NoneOpt, ready |-> s.closed]

RECURSIVE skip_spaces(_)
skip_spaces(chars) ==
   IF chars # <<>> /\ is_space(Head(chars)) THEN skip_spaces(Tail(chars))
   ELSE chars

consume_space_to_next(current_line) ==
   [current_line EXCEPT !.chars = skip_spaces(@)]

RECURSIVE push_while(_, _, _)
\* while line.chars.peek().map_or(false, predicate) { push(next) }
push_while(token_str, line, accepted) ==
   IF line.chars # <<>> /\ Head(line.chars) \in accepted
   THEN push_while(token_str \o Head(line.chars),
                   [line EXCEPT !.chars = Tail(@)], accepted)
   ELSE [str |-> token_str, line |-> line]

\* the predicate is given as the set of characters it accepts
consume_and_while(token_str, line, accepted) ==
   push_while(token_str \o Head(line.chars),
              [line EXCEPT !.chars = Tail(@)], accepted)

match_one(line, tk) ==
   [line |-> [line EXCEPT !.chars = advance(@)], tok |-> tk]

match_pair_opt(old_token, line, c, matched_token) ==
   IF peek_is(line.chars, 0, c)
   THEN [line |-> [line EXCEPT !.chars = advance(@)], tok |-> matched_token]
   ELSE [line |-> line, tok |-> old_token]

\* a pair that is not looked at for a "=" behind it
match_pair_eq_opt_short(line, initial_token, paired_char, paired_token) ==
   match_pair_opt(initial_token, line, paired_char, paired_token)

match_pair_eq_opt(line, initial_token, paired_char, paired_token) ==
   LET m == match_pair_opt(initial_token, line, paired_char, paired_token)
       weq == with_equal(m.tok)
   IN  match_pair_opt(m.tok, m.line, "=", weq)

\* self.open_braces += 1
inc_open_braces(s) ==
   [s EXCEPT !.open_braces = u32_wrapping_inc(@),
             !.overflowed = @ \/ s.open_braces = u32_max]

\* self.open_braces = cmp::max(0, self.open_braces - 1): the subtraction is
\* done in u32 before the maximum is taken, and max(0, x) = x for a u32
dec_open_braces(s) ==
   [s EXCEPT !.open_braces = u32_wrapping_dec(@),
             !.overflowed = @ \/ u32_is_zero(s.open_braces)]

SymRet(s, m) == [s |-> s, line |-> m.line, res |-> Tok(m.tok)]

\* the characters build_symbol has a rule for
SymbolStarts ==
   {"(", ")", "[", "]", "{", "}", ",", ":", ";", "~", "=", "@", "%",
    "&", "|", "^", "+", "*", "/", "<", ">", "-", "!", "."}

\* (line.number, ResultToken) and the line and lexer as the call leaves them
build_symbol(s, line) ==
   LET c == peek(line.chars)
       one(tk) == match_one(line, tk)
       opt_eq(tk, tk_eq) == match_pair_opt(one(tk).tok, one(tk).line, "=", tk_eq)
       pair(tk, ch, tk2) == match_pair_eq_opt(one(tk).line, one(tk).tok, ch, tk2)
   IN
   CASE c = Some("(") -> SymRet(inc_open_braces(s), one("Lparen"))
     [] c = Some(")") -> SymRet(dec_open_braces(s), one("Rparen"))
     [] c = Some("[") -> SymRet(inc_open_braces(s), one("Lbracket"))
     [] c = Some("]") -> SymRet(dec_open_braces(s), one("Rbracket"))
     [] c = Some("{") -> SymRet(inc_open_braces(s), one("Lbrace"))
     [] c = Some("}") -> SymRet(dec_open_braces(s), one("Rbrace"))
     [] c = Some(",") -> SymRet(s, one("Comma"))
     [] c = Some(":") -> SymRet(s, one("Colon"))
     [] c = Some(";") -> SymRet(s, one("Semi"))
     [] c = Some("~") -> SymRet(s, one("BitNot"))
     [] c = Some("=") -> SymRet(s, opt_eq("Assign", "EQ"))
     [] c = Some("@") -> SymRet(s, opt_eq("At", "AssignAt"))
     [] c = Some("%") -> SymRet(s, opt_eq("Mod", "AssignMod"))
     [] c = Some("&") -> SymRet(s, opt_eq("BitAnd", "AssignBitAnd"))
     [] c = Some("|") -> SymRet(s, opt_eq("BitOr", "AssignBitOr"))
     [] c = Some("^") -> SymRet(s, opt_eq("BitXor", "AssignBitXor"))
     [] c = Some("+") -> SymRet(s, opt_eq("Plus", "AssignPlus"))
     [] c = Some("*") -> SymRet(s, pair("Times", "*", "Exponent"))
     [] c = Some("/") -> SymRet(s, pair("Divide", "/", "DivideFloor"))
     [] c = Some("<") -> SymRet(s, pair("LT", "<", "Lshift"))
     [] c = Some(">") -> SymRet(s, pair("GT", ">", "Rshift"))
     [] c = Some("-") ->
           LET m == opt_eq("Minus", "AssignMinus")
           IN  IF m.tok = "Minus"
               THEN SymRet(s, match_pair_opt(m.tok, m.line, ">", "Arrow"))
               ELSE SymRet(s, m)
     [] c = Some("!") ->
           LET rest == [line EXCEPT !.chars = advance(@)]
           IN  IF peek_is(rest.chars, 0, "=")
               THEN SymRet(s, match_one(rest, "NE"))
               ELSE [s |-> s, line |-> rest,
                     res |-> ErrText("InvalidSymbol", "!")]
     [] c = Some(".") ->
           LET rest == [line EXCEPT !.chars = advance(@)]
           IN  IF peek_is(rest.chars, 0, ".") /\ peek_is(rest.chars, 1, ".")
               THEN [s |-> s,
                     line |-> [rest EXCEPT !.chars = advance(advance(@))],
                     res |-> Tok("Ellipsis")]
               ELSE [s |-> s, line |-> rest, res |-> Tok("Dot")]
     [] c # NoneOpt /\ c[1] \notin SymbolStarts ->
           \* Some(&c): the character is reported and left in the iterator
           [s |-> s, line |-> line, res |-> ErrText("InvalidSymbol", c[1])]
     [] OTHER ->
           [s |-> s, line |-> line,
            res |-> ErrText("Internal", "error processing symbol")]

process_symbols(s, line) ==
   LET b == build_symbol(s, line)
   IN  Ret(b.s, Some(Item(line.number, b.res)), Some(b.line))

build_identifier(line) ==
   LET w == consume_and_while("", line, XidContinue)
   IN  [line |-> w.line, res |-> keyword_lookup(w.str)]

process_identifier(current_line) ==
   LET b == build_identifier(current_line)
   IN  [item |-> Some(Item(current_line.number, b.res)), line |-> Some(b.line)]

(***************************************************************************)
(* Numbers.  The functions take and return the line with its cursor and    *)
(* the ResultToken; token types are given by name.                         *)
(***************************************************************************)
is_decimal_integer(token) == token.ok /\ token.kind = "DecInteger"
is_float(token) == token.ok /\ token.kind = "Float"
\* LEXEMES of tokens.rs: the tokens without a payload, each with the text
\* the table gives for it
LEXEMES ==
   << <<"Newline", "">>, <<"Indent", "">>, <<"Dedent", "">>, <<"False", "">>,
      <<"None", "">>, <<"True", "">>, <<"And", "">>, <<"As", "">>,
      <<"Assert", "">>, <<"Break", "">>, <<"Class", "">>, <<"Continue", "">>,
      <<"Def", "">>, <<"Del", "">>, <<"Elif", "">>, <<"Else", "">>,
      <<"Except", "">>, <<"Finally", "">>, <<"For", "">>, <<"From", "">>,
      <<"Global", "">>, <<"If", "">>, <<"Import", "">>, <<"In", "">>,
      <<"Is", "">>, <<"Lambda", "">>, <<"Nonlocal", "">>, <<"Not", "">>,
      <<"Or", "">>, <<"Pass", "">>, <<"Raise", "">>, <<"Return", "">>,
      <<"Try", "">>, <<"While", "">>, <<"With", "">>, <<"Yield", "">>,
      <<"Plus", "">>, <<"Minus", "">>, <<"Times", "">>, <<"Exponent", "">>,
      <<"Divide", "">>, <<"DivideFloor", "">>, <<"Mod", "">>, <<"At", "">>,
      <<"Lshift", "">>, <<"Rshift", "">>, <<"BitAnd", "">>, <<"BitOr", "">>,
      <<"BitXor", "">>, <<"BitNot", "">>, <<"LT", "">>, <<"GT", "">>,
      <<"LE", "">>, <<"GE", "">>, <<"EQ", "">>, <<"NE", "">>,
      <<"Lparen", "">>, <<"Rparen", "">>, <<"Lbracket", "">>,
      <<"Rbracket", "">>, <<"Lbrace", "">>, <<"Rbrace", "">>, <<"Comma", "">>,
      <<"Colon", "">>, <<"Dot", "">>, <<"Ellipsis", "">>, <<"Semi", "">>,
      <<"Arrow", "">>, <<"Assign", "">>, <<"AssignPlus", "">>,
      <<"AssignMinus", "">>, <<"AssignTimes", "">>, <<"AssignDivide", "">>,
      <<"AssignDivideFloor", "">>, <<"AssignMod", "">>, <<"AssignAt", "">>,
      <<"AssignBitAnd", "">>, <<"AssignBitOr", "">>, <<"AssignBitXor", "">>,
      <<"AssignRshift", "">>, <<"AssignLshift", "">>,
      <<"AssignExponent", "">>, <<"Quote", "">>, <<"DoubleQuote", "">> >>

\* the length of the well-formed UTF-8 sequence that bytes starts with, or 0
\* if it starts with none
utf8_width(bytes) ==
   LET b == bytes[1]
       n == Len(bytes)
   IN  CASE b <= 127 -> 1
         [] b \in 194..223 /\ n >= 2 /\ bytes[2] \in 128..191 -> 2
         [] /\ b \in 224..239
            /\ n >= 3
            /\ bytes[2] \in (IF b = 224 THEN 160 ELSE 128)..
                               (IF b = 237 THEN 159 ELSE 191)
            /\ bytes[3] \in 128..191 -> 3
         [] /\ b \in 240..244
            /\ n >= 4
            /\ bytes[2] \in (IF b = 240 THEN 144 ELSE 128)..
                               (IF b = 244 THEN 143 ELSE 191)
            /\ bytes[3] \in 128..191
            /\ bytes[4] \in 128..191 -> 4
         [] OTHER -> 0

\* the code point that a well-formed sequence of w bytes writes
utf8_code_point(bytes, w) ==
   IF w = 1 THEN bytes[1]
   ELSE IF w = 2 THEN (bytes[1] - 192) * 64 + (bytes[2] - 128)
   ELSE IF w = 3
   THEN (bytes[1] - 224) * 4096 + (bytes[2] - 128) * 64 + (bytes[3] - 128)
   ELSE (bytes[1] - 240) * 262144 + (bytes[2] - 128) * 4096
           + (bytes[3] - 128) * 64 + (bytes[4] - 128)

RECURSIVE from_utf8_from(_, _)
from_utf8_from(bytes, chars) ==
   IF bytes = <<>> THEN Some(chars)
   ELSE LET w == utf8_width(bytes)
        IN  IF w = 0 THEN NoneOpt
            ELSE from_utf8_from(SubSeq(bytes, w + 1, Len(bytes)),
                                Append(chars, utf8_code_point(bytes, w)))

\* String::from_utf8(bytes): Some(the characters the bytes write), or None
\* for the Err(FromUtf8Error) of bytes that are not UTF-8
from_utf8(bytes) == from_utf8_from(bytes, <<>>)

\* String::from_utf8(..).unwrap(): the String, or the panic of the unwrap,
\* where the call does not return
from_utf8_unwrap(decoded) ==
   IF decoded = NoneOpt
   THEN [panicked |-> "Result::unwrap() on an Err value: FromUtf8Error"]
   ELSE decoded[1]

\* for &(ref tk, s) in LEXEMES.into_iter() { if tk == &self { return s } }
table_lexeme(table, kind) ==
   table[CHOOSE i \in 1..Len(table) : table[i][1] = kind][2]

\* Token::lexeme: the payload of a token that carries its text, the bytes
\* of a Bytes token decoded as UTF-8 (the unwrap panics if they are not
\* UTF-8), and the entry of LEXEMES of any other token
lexeme(token) ==
   IF token.kind \in {"Identifier", "DecInteger", "BinInteger", "OctInteger",
                      "HexInteger", "Float", "Imaginary"}
   THEN token.text
   ELSE IF token.kind = "String" THEN token.data
   ELSE IF token.kind = "Bytes" THEN from_utf8_unwrap(from_utf8(token.data))
   ELSE table_lexeme(LEXEMES, token.kind)

\* the next character consumed and left out of the token
push_next_dropped(token_str, line) ==
   [str |-> token_str, line |-> [line EXCEPT !.chars = Tail(@)]]

push_next(token_str, line) ==
   [str |-> token_str \o Head(line.chars),
    line |-> [line EXCEPT !.chars = Tail(@)]]

\* missing digits reported as a malformed float
require_radix_digits_malformed(token_str, line, radix, token_type) ==
   IF peek_in(line.chars, 0, DigitsOf(radix))
   THEN LET w == consume_and_while(token_str, line, DigitsOf(radix))
        IN  [line |-> w.line, res |-> TokText(token_type, w.str)]
   ELSE [line |-> line, res |-> Err("MalformedFloat")]

require_radix_digits(token_str, line, radix, token_type) ==
   IF peek_in(line.chars, 0, DigitsOf(radix))
   THEN LET w == consume_and_while(token_str, line, DigitsOf(radix))
        IN  [line |-> w.line, res |-> TokText(token_type, w.str)]
   ELSE [line |-> line, res |-> Err("MissingDigits")]

build_point_float(token, line) ==
   IF ~token.ok THEN [line |-> line, res |-> token]
   ELSE IF ~peek_is(line.chars, 0, ".") THEN [line |-> line, res |-> token]
   ELSE IF ~is_decimal_integer(token)
   THEN [line |-> line, res |-> Err("MalformedFloat")]
   ELSE LET p == push_next(lexeme(token), line)
        IN  IF peek_in(p.line.chars, 0, DecDigits)
            THEN require_radix_digits(p.str, p.line, 10, "Float")
            ELSE [line |-> p.line, res |-> TokText("Float", p.str)]

build_exp_float(token, line) ==
   IF ~token.ok THEN [line |-> line, res |-> token]
   ELSE IF ~peek_in(line.chars, 0, {"e", "E"})
   THEN [line |-> line, res |-> token]
   ELSE IF ~(is_decimal_integer(token) \/ is_float(token))
   THEN [line |-> line, res |-> Err("MalformedFloat")]
   ELSE LET e == push_next(lexeme(token), line)
            sign == IF peek_in(e.line.chars, 0, {"+", "-"})
                    THEN push_next(e.str, e.line) ELSE e
        IN  require_radix_digits(sign.str, sign.line, 10, "Float")

build_img_float(token, line) ==
   IF ~token.ok THEN [line |-> line, res |-> token]
   ELSE IF ~peek_in(line.chars, 0, {"j", "J"})
   THEN [line |-> line, res |-> token]
   ELSE IF ~(is_decimal_integer(token) \/ is_float(token))
   THEN [line |-> line, res |-> Err("MalformedImaginary")]
   ELSE LET j == push_next(lexeme(token), line)
        IN  [line |-> j.line, res |-> TokText("Imaginary", j.str)]

\* let result = build_exp_float(result, line), and the like: the next
\* function on the token and the line the one before it has returned
exp_float_after(r) == build_exp_float(r.res, r.line)
img_float_after(r) == build_img_float(r.res, r.line)

build_float_part(token, line) ==
   img_float_after(exp_float_after(build_point_float(token, line)))

require_float_part(token, line) ==
   IF ~peek_in(line.chars, 0, {".", "e", "E", "j", "J"})
   THEN [line |-> line, res |-> Err("MalformedFloat")]
   ELSE build_float_part(token, line)

float_part_after(r) == build_float_part(r.res, r.line)
require_float_part_after(r) == require_float_part(r.res, r.line)

build_decimal_number(line) ==
   require_radix_digits("", line, 10, "DecInteger")

\* build_dot_prefixed with the digit looked for one character further on
build_dot_prefixed_looks_past(line) ==
   LET dot == push_next("", line)
   IN  IF peek_in(dot.line.chars, 1, DecDigits)
       THEN img_float_after(
               exp_float_after(
                  require_radix_digits(dot.str, dot.line, 10, "Float")))
       ELSE [line |-> dot.line, res |-> ErrText("Internal", "dot")]

build_dot_prefixed(line) ==
   LET dot == push_next("", line)
   IN  IF peek_in(dot.line.chars, 0, DecDigits)
       THEN img_float_after(
               exp_float_after(
                  require_radix_digits(dot.str, dot.line, 10, "Float")))
       ELSE [line |-> dot.line, res |-> ErrText("Internal", "dot")]

\* the result of a number function, with radix_one: the call evaluated
\* c.is_digit(1)
with_radix_one(r, evaluated) ==
   [line |-> r.line, res |-> r.res, radix_one |-> evaluated]

build_zero_prefixed_number(line) ==
   LET zero == push_next("", line)
       c == peek(zero.line.chars)
       prefix == push_next(zero.str, zero.line)
       zeros == consume_and_while(zero.str, zero.line, DigitsOf(1))
   IN  with_radix_one(
          CASE c \in {Some("o"), Some("O")} ->
                  require_radix_digits(prefix.str, prefix.line, 8,
                                       "OctInteger")
            [] c \in {Some("x"), Some("X")} ->
                  require_radix_digits(prefix.str, prefix.line, 16,
                                       "HexInteger")
            [] c \in {Some("b"), Some("B")} ->
                  require_radix_digits(prefix.str, prefix.line, 2,
                                       "BinInteger")
            [] c = Some("0") ->
                  IF peek_in(zeros.line.chars, 0, DecDigits)
                  THEN require_float_part_after(
                          require_radix_digits(zeros.str, zeros.line, 10,
                                               "DecInteger"))
                  ELSE build_float_part(TokText("DecInteger", zeros.str),
                                        zeros.line)
            [] c # NoneOpt /\ c # Some("0") /\ c[1] \in DecDigits ->
                  require_float_part_after(
                     require_radix_digits(zero.str, zero.line, 10,
                                          "DecInteger"))
            [] OTHER ->
                  build_float_part(TokText("DecInteger", zero.str),
                                   zero.line),
          \* the predicate runs once a character follows the second 0
          c = Some("0") /\ Len(zero.line.chars) > 1)

build_number(line) ==
   LET c == peek(line.chars)
   IN  CASE c = Some("0") -> build_zero_prefixed_number(line)
         [] c = Some(".") -> with_radix_one(build_dot_prefixed(line), FALSE)
         [] OTHER ->
               with_radix_one(float_part_after(build_decimal_number(line)),
                              FALSE)

\* (Some((current_line.number, result)), Some(current_line)) of
\* process_number, result and the line after it being b
numbered(number, b) ==
   [item |-> Some(Item(number, b.res)), line |-> Some(b.line),
    radix_one |-> b.radix_one]

process_number(current_line) ==
   numbered(current_line.number, build_number(current_line))

(***************************************************************************)
(* Text and byte literals.  The content of a literal is kept as a sequence *)
(* of code points (String) or of bytes (Bytes).                            *)
(***************************************************************************)
\* the printable ASCII characters in code order, from code 32 up, without
\* the grave accent (code 96), which a string of this notation cannot hold
AsciiTable ==
   << " ", "!", "\"", "#", "$", "%", "&", "'", "(", ")", "*", "+", ",", "-",
      ".", "/", "0", "1", "2", "3", "4", "5", "6", "7", "8", "9", ":", ";",
      "<", "=", ">", "?", "@", "A", "B", "C", "D", "E", "F", "G", "H", "I",
      "J", "K", "L", "M", "N", "O", "P", "Q", "R", "S", "T", "U", "V", "W",
      "X", "Y", "Z", "[", "\\", "]", "^", "_", "a", "b", "c", "d", "e",
      "f", "g", "h", "i", "j", "k", "l", "m", "n", "o", "p", "q", "r", "s",
      "t", "u", "v", "w", "x", "y", "z", "{", "|", "}", "~" >>

\* c as u32
code(c) ==
   CASE c = "\t" -> 9
     [] c = "\n" -> 10
     [] c = "\f" -> 12
     [] c = "\r" -> 13
     [] c = "é" -> 233
     [] c = "€" -> 8364
     [] OTHER -> LET i == CHOOSE i \in 1..Len(AsciiTable) : AsciiTable[i] = c
                 IN  IF i <= 64 THEN 31 + i ELSE 32 + i

\* c as u8
code_u8(c) == code(c) % 256

\* c.to_digit(16)
to_digit(c) ==
   IF c \in DecDigits THEN code(c) - 48
   ELSE IF c \in LowerCase THEN code(c) - 87
   ELSE code(c) - 55

RECURSIVE from_str_radix(_, _, _)
\* u32::from_str_radix(digits, radix) continued from acc, for digit strings
\* that fit a u32; the value in two 16-bit halves
from_str_radix(digits, radix, acc) ==
   IF digits = <<>> THEN acc
   ELSE LET low == acc.lo * radix + to_digit(Head(digits))
        IN  from_str_radix(Tail(digits), radix,
               [hi |-> (acc.hi * radix + (low \div HalfWord)) % HalfWord,
                lo |-> low % HalfWord])

\* char::from_u32(v): None for a surrogate and above 0x10FFFF
char_from_u32(v) ==
   IF v.hi > 16 \/ (v.hi = 0 /\ v.lo >= 55296 /\ v.lo <= 57343)
   THEN NoneOpt
   ELSE Some(v.hi * HalfWord + v.lo)

\* unicode_names::character(name), for the few names of this excerpt
unicode_names_character(named) ==
   CASE named \in {"monkey", "MONKEY"} -> Some(128018)
     [] named \in {"black star", "BLACK STAR"} -> Some(9733)
     [] named \in {"space", "SPACE"} -> Some(32)
     [] OTHER -> NoneOpt

RECURSIVE build_n_while_from(_, _, _, _, _)
build_n_while_from(line, n, accepted, str, i) ==
   IF i < n /\ peek_in(line.chars, 0, accepted)
   THEN build_n_while_from([line EXCEPT !.chars = Tail(@)], n, accepted,
                           Append(str, Head(line.chars)), i + 1)
   ELSE [line |-> line, str |-> IF i = n THEN Some(str) ELSE NoneOpt]

\* build_n_while that takes one character more than it is asked for
build_n_while_one_more(line, n, accepted) ==
   build_n_while_from(line, n + 1, accepted, <<>>, 0)

\* Option<String> as an Option of the sequence of its characters
build_n_while(line, n, accepted) == build_n_while_from(line, n, accepted, <<>>, 0)

\* (Option<Line>, Result<String, LexerError>) of the escape functions, and
\* the message of the panic if one is reached
Escaped(line, token_str) ==
   [line |-> line, ok |-> TRUE, token |-> token_str, err |-> Err("none"),
    panicked |-> ""]
EscapeError(line, err) ==
   [line |-> line, ok |-> FALSE, token |-> <<>>, err |-> err, panicked |-> ""]
EscapePanic(line, message) ==
   [line |-> line, ok |-> FALSE, token |-> <<>>, err |-> Err("none"),
    panicked |-> message]

\* the up to three octal digits of push_octal_character(_byte): their value
\* and the line after them
octal_digits(line, c) ==
   LET second == peek_in(line.chars, 0, OctDigits)
       line2 == IF second THEN [line EXCEPT !.chars = Tail(@)] ELSE line
       third == second /\ peek_in(line2.chars, 0, OctDigits)
       line3 == IF third THEN [line2 EXCEPT !.chars = Tail(@)] ELSE line2
       octal == << c >> \o (IF second THEN << Head(line.chars) >> ELSE <<>>)
                       \o (IF third THEN << Head(line2.chars) >> ELSE <<>>)
   IN  [line |-> line3, v |-> from_str_radix(octal, 8, u32_zero)]

push_octal_character(line, token_str, c) ==
   LET o == octal_digits(line, c)
       ch == char_from_u32(o.v)
   IN  Escaped(o.line, Append(token_str, ch[1]))

\* an octal escape that appends its value as it is
push_octal_character_byte_wide(line, token_vec, c) ==
   LET o == octal_digits(line, c)
   IN  Escaped(o.line, Append(token_vec, o.v.lo))

push_octal_character_byte(line, token_vec, c) ==
   LET o == octal_digits(line, c)
   IN  Escaped(o.line, Append(token_vec, o.v.lo % 256))

push_hex_character(line, token_str) ==
   LET b == build_n_while(line, 2, HexDigits)
   IN  IF b.str # NoneOpt
       THEN LET ch == char_from_u32(from_str_radix(b.str[1], 16, u32_zero))
            IN  Escaped(b.line, Append(token_str, ch[1]))
       ELSE EscapeError(b.line, Err("HexEscapeShort"))

push_hex_character_byte(line, token_vec) ==
   LET b == build_n_while(line, 2, HexDigits)
   IN  IF b.str # NoneOpt
       THEN Escaped(b.line,
               Append(token_vec,
                      from_str_radix(b.str[1], 16, u32_zero).lo % 256))
       ELSE EscapeError(b.line, Err("HexEscapeShort"))

push_unicode_character(line, token_str, num_digits) ==
   LET b == build_n_while(line, num_digits, HexDigits)
   IN  IF b.str # NoneOpt
       THEN LET ch == char_from_u32(from_str_radix(b.str[1], 16, u32_zero))
            IN  IF ch = NoneOpt
                THEN \* char::from_u32(v).unwrap()
                     EscapePanic(b.line,
                        "called Option::unwrap() on a None value")
                ELSE Escaped(b.line, Append(token_str, ch[1]))
       ELSE EscapeError(b.line, Err("MalformedUnicodeEscape"))

RECURSIVE named_while(_, _)
\* while line.chars.peek().map_or(false, |&c| c != '}') { named.push(next) }
named_while(named, line) ==
   IF line.chars # <<>> /\ Head(line.chars) # "}"
   THEN named_while(named \o Head(line.chars),
                    [line EXCEPT !.chars = Tail(@)])
   ELSE [str |-> named, line |-> line]

push_named_character(line, token_str) ==
   IF ~peek_is(line.chars, 0, "{")
   THEN EscapeError(line, Err("MalformedNamedUnicodeEscape"))
   ELSE LET w == named_while("", [line EXCEPT !.chars = Tail(@)])
        IN  IF ~peek_is(w.line.chars, 0, "}")
            THEN EscapeError(w.line, Err("MalformedNamedUnicodeEscape"))
            ELSE LET rest == [w.line EXCEPT !.chars = Tail(@)]
                     ch == unicode_names_character(w.str)
                 IN  IF ch # NoneOpt
                     THEN Escaped(rest, Append(token_str, ch[1]))
                     ELSE EscapeError(rest,
                             ErrText("UnknownUnicodeName", w.str))

\* a raw literal that keeps the escaped character and drops the backslash
handle_escaped_character_drops_backslash(line, token_str, is_raw) ==
   Escaped([line EXCEPT !.chars = Tail(@)],
           Append(token_str, code(Head(line.chars))))

\* the arms of handle_escaped_character for Some(c): the character after
\* the backslash is on the line
handle_escaped_character(line, token_str, is_raw) ==
   LET c == Head(line.chars)
       rest == [line EXCEPT !.chars = Tail(@)]
       simple(v) == Escaped(rest, Append(token_str, v))
   IN  IF is_raw THEN Escaped(rest, token_str \o << 92, code(c) >>)
       ELSE CASE c = "\\" -> simple(92)
              [] c = "'" -> simple(39)
              [] c = "\"" -> simple(34)
              [] c = "a" -> simple(7)
              [] c = "b" -> simple(8)
              [] c = "f" -> simple(12)
              [] c = "n" -> simple(10)
              [] c = "r" -> simple(13)
              [] c = "t" -> simple(9)
              [] c = "v" -> simple(11)
              [] c \in OctDigits -> push_octal_character(rest, token_str, c)
              [] c = "x" -> push_hex_character(rest, token_str)
              [] c = "N" -> push_named_character(rest, token_str)
              [] c = "u" -> push_unicode_character(rest, token_str, 4)
              [] c = "U" -> push_unicode_character(rest, token_str, 8)
              [] OTHER -> Escaped(rest, token_str \o << 92, code(c) >>)

\* the arms of handle_escaped_character_byte for Some(c)
handle_escaped_character_byte(line, token_vec, is_raw) ==
   LET c == Head(line.chars)
       rest == [line EXCEPT !.chars = Tail(@)]
       simple(v) == Escaped(rest, Append(token_vec, v))
       other == IF code(c) < 128
                THEN Escaped(rest, token_vec \o << 92, code_u8(c) >>)
                ELSE EscapeError(rest, ErrText("InvalidCharacter", c))
   IN  IF is_raw THEN other
       ELSE CASE c = "\\" -> simple(92)
              [] c = "'" -> simple(39)
              [] c = "\"" -> simple(34)
              [] c = "a" -> simple(7)
              [] c = "b" -> simple(8)
              [] c = "f" -> simple(12)
              [] c = "n" -> simple(10)
              [] c = "r" -> simple(13)
              [] c = "t" -> simple(9)
              [] c = "v" -> simple(11)
              [] c \in OctDigits ->
                    push_octal_character_byte(rest, token_vec, c)
              [] c = "x" -> push_hex_character_byte(rest, token_vec)
              [] OTHER -> other

\* the leading blanks of the line left out of the literal
spaces_of_trimmed(line, bytes) == <<>>

\* the characters pushed for a line's leading_spaces
spaces_of(line, bytes) ==
   [i \in 1..Len(line.leading_spaces) |->
      IF bytes THEN code_u8(line.leading_spaces[i])
      ELSE code(line.leading_spaces[i])]

Turn(lit, how, token, line) ==
   [how |-> how, lit |-> [lit EXCEPT !.token = token, !.line = line],
    err |-> Err("none"), panicked |-> ""]

\* the match on an escape that drops a failed escape and goes on with the
\* literal
escape_turn_goes_on(lit, e) ==
   IF e.panicked # ""
   THEN [Turn(lit, "panic", lit.token, e.line) EXCEPT !.panicked = e.panicked]
   ELSE IF e.ok THEN Turn(lit, "more", e.token, e.line)
   ELSE Turn(lit, "more", lit.token, e.line)

\* the match in build_string(_byte) on what process_escape_sequence(_byte)
\* has returned, e
escape_turn(lit, e) ==
   IF e.panicked # ""
   THEN [Turn(lit, "panic", lit.token, e.line) EXCEPT !.panicked = e.panicked]
   ELSE IF e.ok THEN Turn(lit, "more", e.token, e.line)
   ELSE [Turn(lit, "error", lit.token, e.line) EXCEPT !.err = e.err]

\* one turn of the loop of build_string and build_string_byte, and of the
\* escape functions it calls, as far as the literal's line goes: the
\* literal after it, and how the turn ends:
\*   "more"    the loop goes on
\*   "done"    at the closing quote
\*   "line"    end of line in a long literal: the loop asks for the next line
\*   "escape"  backslash at the end of the line: handle_escaped_character
\*             asks for the next line
\*   "short"   end of line in a short literal
\*   "error"   the escape is in error
\*   "panic"   the escape panics
string_turn(lit) ==
   LET chars == lit.line.chars
       rest == [lit.line EXCEPT !.chars = Tail(@)]
       turn(how, token, line) == Turn(lit, how, token, line)
       push(c) == Append(lit.token, IF lit.bytes THEN code_u8(c) ELSE code(c))
   IN  IF chars = <<>>
       THEN IF lit.is_long_string
            THEN turn("line", Append(lit.token, 10), lit.line)
            ELSE turn("short", lit.token, lit.line)
       ELSE IF Head(chars) = "\\"
       THEN IF rest.chars = <<>>
            THEN \* end of line escape, join lines
                 turn("escape",
                      IF lit.is_raw THEN lit.token \o << 92, 10 >>
                      ELSE lit.token,
                      rest)
            ELSE escape_turn(lit,
                    IF lit.bytes
                    THEN handle_escaped_character_byte(rest, lit.token,
                                                       lit.is_raw)
                    ELSE handle_escaped_character(rest, lit.token,
                                                  lit.is_raw))
       ELSE IF Head(chars) = lit.quote
       THEN IF ~lit.is_long_string THEN turn("done", lit.token, rest)
            ELSE IF /\ peek_is(rest.chars, 0, lit.quote)
                    /\ peek_is(rest.chars, 1, lit.quote)
            THEN \* consume closing quotes
                 turn("done", lit.token,
                      [rest EXCEPT !.chars = advance(advance(@))])
            ELSE turn("more", push(Head(chars)), rest)
       ELSE turn("more", push(Head(chars)), rest)

RECURSIVE string_turns(_)
\* the turns of the loop on the literal's line after the turn t, up to
\* the one that leaves the line
string_turns(t) ==
   IF t.how = "more" THEN string_turns(string_turn(t.lit)) ELSE t

RECURSIVE build_string_loop(_, _)

\* the error of a literal open at the end of the source given the number
\* of the last line
build_string_next_line_same_number(s, lit, where) ==
   LET n == lines_next(s)
   IN  IF ~n.ready THEN Suspended([s EXCEPT !.pending = Some(lit)], where)
       ELSE IF n.line = NoneOpt
       THEN Ret(n.s,
                Some(Item(lit.line.number,
                          Err(IF lit.is_long_string
                              THEN "UnterminatedTripleString"
                              ELSE "UnterminatedString"))),
                NoneOpt)
       ELSE build_string_loop(n.s,
               [lit EXCEPT !.token = @ \o spaces_of(n.line[1], lit.bytes),
                           !.line = n.line[1]])

\* self.lines.next() inside a literal, at the end of a line of a long
\* literal ("string_line") or after a backslash ("string_escape"), and the
\* rest of the call
build_string_next_line(s, lit, where) ==
   LET n == lines_next(s)
   IN  IF ~n.ready THEN Suspended([s EXCEPT !.pending = Some(lit)], where)
       ELSE IF n.line = NoneOpt
       THEN Ret(n.s,
                Some(Item(lit.line.number + 1,
                          Err(IF lit.is_long_string
                              THEN "UnterminatedTripleString"
                              ELSE "UnterminatedString"))),
                NoneOpt)
       ELSE build_string_loop(n.s,
               [lit EXCEPT !.token = @ \o spaces_of(n.line[1], lit.bytes),
                           !.line = n.line[1]])

\* string_exit with the line dropped where a short literal meets the end
\* of its line
string_exit_drops_line(s, lit, t) ==
   CASE t.how = "done" ->
           Ret(s, Some(Item(lit.first_line_number,
                            TokData(IF lit.bytes THEN "Bytes" ELSE "String",
                                    t.lit.token))),
               Some(t.lit.line))
     [] t.how = "short" ->
           Ret(s, Some(Item(t.lit.line.number, Err("UnterminatedString"))),
               NoneOpt)
     [] t.how = "error" ->
           Ret(s, Some(Item(t.lit.line.number, t.err)), Some(t.lit.line))
     [] t.how = "panic" -> Panic(s, t.panicked)
     [] OTHER ->
           build_string_next_line(s, t.lit,
              IF t.how = "line" THEN "string_line" ELSE "string_escape")

\* what build_string(_byte) does when the turn t leaves the line
string_exit(s, lit, t) ==
   CASE t.how = "done" ->
           Ret(s, Some(Item(lit.first_line_number,
                            TokData(IF lit.bytes THEN "Bytes" ELSE "String",
                                    t.lit.token))),
               Some(t.lit.line))
     [] t.how = "short" ->
           Ret(s, Some(Item(t.lit.line.number, Err("UnterminatedString"))),
               Some(t.lit.line))
     [] t.how = "error" ->
           Ret(s, Some(Item(t.lit.line.number, t.err)), Some(t.lit.line))
     [] t.how = "panic" -> Panic(s, t.panicked)
     [] OTHER ->
           build_string_next_line(s, t.lit,
              IF t.how = "line" THEN "string_line" ELSE "string_escape")

\* the loop of build_string and build_string_byte, and the return after it
build_string_loop(s, lit) ==
   string_exit(s, lit, string_turns(string_turn(lit)))

\* the literal a build_string(_byte) call starts with
literal(line, quote, is_raw, is_long_string, bytes) ==
   [line |-> IF is_long_string
             THEN [line EXCEPT !.chars = advance(advance(@))] ELSE line,
    token |-> <<>>, quote |-> quote, is_raw |-> is_raw,
    is_long_string |-> is_long_string, first_line_number |-> line.number,
    bytes |-> bytes]

build_string(s, line, quote, is_raw, is_long_string) ==
   build_string_loop(s, literal(line, quote, is_raw, is_long_string, FALSE))

build_string_byte(s, line, quote, is_raw, is_long_string) ==
   build_string_loop(s, literal(line, quote, is_raw, is_long_string, TRUE))

process_string(s, line) ==
   LET unprefixed == IF peek_in(line.chars, 0, {"u", "U"})
                     THEN [line EXCEPT !.chars = Tail(@)] ELSE line
       is_raw == peek_in(unprefixed.chars, 0, {"r", "R"})
       opening == IF is_raw THEN [unprefixed EXCEPT !.chars = Tail(@)]
                  ELSE unprefixed
       quote == Head(opening.chars)
       rest == [opening EXCEPT !.chars = Tail(@)]
       is_long_string == peek_is(rest.chars, 0, quote)
                            /\ peek_is(rest.chars, 1, quote)
   IN  build_string(s, rest, quote, is_raw, is_long_string)

process_byte_string(s, line) ==
   LET is_raw == \/ peek_in(line.chars, 1, {"r", "R"})
                 \/ peek_in(line.chars, 0, {"r", "R"})
       opening == IF is_raw THEN [line EXCEPT !.chars = advance(advance(@))]
                  ELSE [line EXCEPT !.chars = advance(@)]
       quote == Head(opening.chars)
       rest == [opening EXCEPT !.chars = Tail(@)]
       is_long_string == peek_is(rest.chars, 0, quote)
                            /\ peek_is(rest.chars, 1, quote)
   IN  build_string_byte(s, rest, quote, is_raw, is_long_string)

\* the misalignment reported first, the Dedents of the other levels after it
process_dedents_error_first(s, current_line) ==
   IF s.dedent_count < 0
   THEN Ret([s EXCEPT !.dedent_count = (-1 * @) - 1],
            Some(Item(current_line.number, Err("Dedent"))),
            Some(current_line))
   ELSE Ret([s EXCEPT !.dedent_count = @ - 1],
            Some(Item(current_line.number, Tok("Dedent"))),
            Some(current_line))

\* the Dedents of a line handed out with line number 0
process_dedents_line_zero(s, current_line) ==
   IF s.dedent_count = -1
   THEN Ret([s EXCEPT !.dedent_count = 0],
            Some(Item(0, Err("Dedent"))),
            Some(current_line))
   ELSE Ret([s EXCEPT !.dedent_count =
                         @ + (IF s.dedent_count < 0 THEN 1 ELSE -1)],
            Some(Item(0, Tok("Dedent"))),
            Some(current_line))

\* process_dedents that counts two levels down with one Dedent
process_dedents_two_at_once(s, current_line) ==
   IF s.dedent_count = -1
   THEN Ret([s EXCEPT !.dedent_count = 0],
            Some(Item(current_line.number, Err("Dedent"))),
            Some(current_line))
   ELSE Ret([s EXCEPT !.dedent_count =
                         IF @ >= 2 THEN @ - 2
                         ELSE @ + (IF s.dedent_count < 0 THEN 1 ELSE -1)],
            Some(Item(current_line.number, Tok("Dedent"))),
            Some(current_line))

\* process_dedents that takes a character of the line with each item
process_dedents_moves_cursor(s, current_line) ==
   LET moved == [current_line EXCEPT !.chars = advance(@)]
   IN  IF s.dedent_count = -1
       THEN Ret([s EXCEPT !.dedent_count = 0],
                Some(Item(current_line.number, Err("Dedent"))),
                Some(moved))
       ELSE Ret([s EXCEPT !.dedent_count =
                             @ + (IF s.dedent_count < 0 THEN 1 ELSE -1)],
                Some(Item(current_line.number, Tok("Dedent"))),
                Some(moved))

process_dedents(s, current_line) ==
   IF s.dedent_count = -1
   THEN Ret([s EXCEPT !.dedent_count = 0],
            Some(Item(current_line.number, Err("Dedent"))),
            Some(current_line))
   ELSE Ret([s EXCEPT !.dedent_count =
                         @ + (IF s.dedent_count < 0 THEN 1 ELSE -1)],
            Some(Item(current_line.number, Tok("Dedent"))),
            Some(current_line))

RECURSIVE dedent_index_inclusive(_, _, _)
\* the loop with <= for <: it also pops the level the line is aligned with
dedent_index_inclusive(indent_stack, indentation, i) ==
   IF i >= 1 /\ indentation <= indent_stack[i]
   THEN dedent_index_inclusive(indent_stack, indentation, i - 1)
   ELSE i

RECURSIVE dedent_index(_, _, _)
\* while newline.indentation < self.indent_stack[i] { i -= 1 }, on the
\* 1-based stack; i = 0 stands for the underflow of the 0-based index
dedent_index(indent_stack, indentation, i) ==
   IF i >= 1 /\ indentation < indent_stack[i]
   THEN dedent_index(indent_stack, indentation, i - 1)
   ELSE i

\* the end-of-input Dedent handed out without popping its level
end_of_lines_keeps_level(s) ==
   IF Len(s.indent_stack) <= 1
   THEN Ret(s, NoneOpt, NoneOpt)
   ELSE Ret(s, Some(Item(0, Tok("Dedent"))), NoneOpt)

\* the guard with len() < 1 for len() <= 1: the bottom entry is popped too
end_of_lines_pops_bottom(s) ==
   IF Len(s.indent_stack) < 1
   THEN Ret(s, NoneOpt, NoneOpt)
   ELSE Ret([s EXCEPT !.indent_stack = SubSeq(@, 1, Len(@) - 1)],
            Some(Item(0, Tok("Dedent"))), NoneOpt)

\* the arms of next_token_line for lines.next() = None
end_of_lines(s) ==
   IF Len(s.indent_stack) <= 1
   THEN Ret(s, NoneOpt, NoneOpt)
   ELSE Ret([s EXCEPT !.indent_stack = SubSeq(@, 1, Len(@) - 1)],
            Some(Item(0, Tok("Dedent"))), NoneOpt)

RECURSIVE next_token_line(_, _)
RECURSIVE process_line_start(_, _)

\* let newline = self.lines.next(); self.next_token_line(newline)
continue_on_next_line(s) ==
   LET n == lines_next(s)
   IN  IF n.ready THEN next_token_line(n.s, n.line)
       ELSE Suspended(s, "continuation")

\* the Newline handed out whatever the bracket depth
process_end_of_line_any_depth(s, line) ==
   Ret(s, Some(Item(line.number, Tok("Newline"))), NoneOpt)

\* the Newline handed out with the line kept as the current line
process_end_of_line_keeps_line(s, line) ==
   IF u32_is_zero(s.open_braces)
   THEN Ret(s, Some(Item(line.number, Tok("Newline"))), Some(line))
   ELSE continue_on_next_line(s)

process_end_of_line(s, line) ==
   IF u32_is_zero(s.open_braces)
   THEN Ret(s, Some(Item(line.number, Tok("Newline"))), NoneOpt)
   ELSE continue_on_next_line(s)

\* the line after a joining backslash taken as the start of a logical line
process_line_join_starts_line(s, current_line) ==
   LET rest == [current_line EXCEPT !.chars = advance(@)]
   IN  IF peek(rest.chars) = NoneOpt
       THEN next_token_line(s, NoneOpt)
       ELSE Ret(s, Some(Item(rest.number, Err("BadLineContinuation"))),
                Some(rest))

\* the backslash and the character after it both consumed
process_line_join_skips_next(s, current_line) ==
   LET rest == [current_line EXCEPT !.chars = advance(@)]
   IN  IF peek(rest.chars) = NoneOpt
       THEN continue_on_next_line(s)
       ELSE Ret(s, Some(Item(rest.number, Err("BadLineContinuation"))),
                Some([rest EXCEPT !.chars = advance(@)]))

process_line_join(s, current_line) ==
   LET rest == [current_line EXCEPT !.chars = advance(@)]
   IN  IF peek(rest.chars) = NoneOpt
       THEN \* explicit line join
            continue_on_next_line(s)
       ELSE Ret(s, Some(Item(rest.number, Err("BadLineContinuation"))),
                Some(rest))

\* process_line_start with the Indent handed out and its width not pushed
process_line_start_no_push(s, newline) ==
   IF s.indent_stack = <<>>
   THEN Panic(s, "Internal indentation stack error!")
   ELSE
   LET previous_indent == s.indent_stack[Len(s.indent_stack)]
   IN
   IF peek(newline.chars) = NoneOpt \/ peek_is(newline.chars, 0, "#")
   THEN next_token_line(s, NoneOpt)
   ELSE IF newline.indentation > previous_indent
   THEN Ret(s, Some(Item(newline.number, Tok("Indent"))), Some(newline))
   ELSE IF newline.indentation < previous_indent
   THEN LET stack_len == Len(s.indent_stack)
            i == dedent_index(s.indent_stack, newline.indentation, stack_len)
        IN  IF i = 0
            THEN Panic(s, "attempt to subtract with overflow")
            ELSE LET count == stack_len - i
                     flagged == IF s.indent_stack[i] # newline.indentation
                                THEN count * (-1) ELSE count
                 IN  next_token_line(
                        [s EXCEPT !.indent_stack = SubSeq(@, 1, i),
                                  !.dedent_count = flagged],
                        Some(newline))
   ELSE next_token_line(s, Some(newline))

\* process_line_start with the width compared before the line is found to be
\* blank or a comment
process_line_start_width_first(s, newline) ==
   IF s.indent_stack = <<>>
   THEN Panic(s, "Internal indentation stack error!")
   ELSE
   LET previous_indent == s.indent_stack[Len(s.indent_stack)]
   IN
   IF newline.indentation > previous_indent
   THEN Ret([s EXCEPT !.indent_stack = Append(@, newline.indentation)],
            Some(Item(newline.number, Tok("Indent"))), Some(newline))
   ELSE IF peek(newline.chars) = NoneOpt \/ peek_is(newline.chars, 0, "#")
   THEN next_token_line(s, NoneOpt)
   ELSE IF newline.indentation < previous_indent
   THEN LET stack_len == Len(s.indent_stack)
            i == dedent_index(s.indent_stack, newline.indentation, stack_len)
        IN  IF i = 0
            THEN Panic(s, "attempt to subtract with overflow")
            ELSE LET count == stack_len - i
                     flagged == IF s.indent_stack[i] # newline.indentation
                                THEN count * (-1) ELSE count
                 IN  next_token_line(
                        [s EXCEPT !.indent_stack = SubSeq(@, 1, i),
                                  !.dedent_count = flagged],
                        Some(newline))
   ELSE next_token_line(s, Some(newline))

\* process_line_start that pushes the width of a misaligned line
process_line_start_pushes_misaligned(s, newline) ==
   IF s.indent_stack = <<>>
   THEN Panic(s, "Internal indentation stack error!")
   ELSE
   LET previous_indent == s.indent_stack[Len(s.indent_stack)]
   IN
   IF peek(newline.chars) = NoneOpt \/ peek_is(newline.chars, 0, "#")
   THEN next_token_line(s, NoneOpt)
   ELSE IF newline.indentation > previous_indent
   THEN Ret([s EXCEPT !.indent_stack = Append(@, newline.indentation)],
            Some(Item(newline.number, Tok("Indent"))), Some(newline))
   ELSE IF newline.indentation < previous_indent
   THEN LET stack_len == Len(s.indent_stack)
            i == dedent_index(s.indent_stack, newline.indentation, stack_len)
        IN  IF i = 0
            THEN Panic(s, "attempt to subtract with overflow")
            ELSE LET count == stack_len - i
                     aligned == s.indent_stack[i] = newline.indentation
                 IN  next_token_line(
                        [s EXCEPT !.indent_stack =
                                     IF aligned THEN SubSeq(@, 1, i)
                                     ELSE Append(SubSeq(@, 1, i),
                                                 newline.indentation),
                                  !.dedent_count =
                                     IF aligned THEN count
                                     ELSE count * (-1)],
                        Some(newline))
   ELSE next_token_line(s, Some(newline))

process_line_start(s, newline) ==
   IF s.indent_stack = <<>>
   THEN Panic(s, "Internal indentation stack error!")
   ELSE
   LET previous_indent == s.indent_stack[Len(s.indent_stack)]
   IN
   IF peek(newline.chars) = NoneOpt \/ peek_is(newline.chars, 0, "#")
   THEN next_token_line(s, NoneOpt)
   ELSE IF newline.indentation > previous_indent
   THEN Ret([s EXCEPT !.indent_stack = Append(@, newline.indentation)],
            Some(Item(newline.number, Tok("Indent"))), Some(newline))
   ELSE IF newline.indentation < previous_indent
   THEN LET stack_len == Len(s.indent_stack)
            \* i is the 0-based index of the code, plus one
            i == dedent_index(s.indent_stack, newline.indentation, stack_len)
        IN  IF i = 0
            THEN \* i -= 1 at index 0
                 Panic(s, "attempt to subtract with overflow")
            ELSE LET count == stack_len - i
                     flagged == IF s.indent_stack[i] # newline.indentation
                                THEN count * (-1) ELSE count
                 IN  next_token_line(
                        [s EXCEPT !.indent_stack = SubSeq(@, 1, i),
                                  !.dedent_count = flagged],
                        Some(newline))
   ELSE next_token_line(s, Some(newline))

next_token_line(s, current_line_opt) ==
   IF current_line_opt # NoneOpt
   THEN IF s.dedent_count # 0
        THEN process_dedents(s, current_line_opt[1])
        ELSE
        LET current_line == consume_space_to_next(current_line_opt[1])
            chars == current_line.chars
            c == peek(chars)
            Quotes == {"'", "\""}
            rule ==
               IF c = NoneOpt THEN "end_of_line"
               ELSE IF c = Some("#") THEN "end_of_line"
               ELSE IF c[1] \in {"u", "U"}
               THEN IF peek_in(chars, 1, Quotes) THEN "string"
                    ELSE "identifier"
               ELSE IF c[1] \in {"r", "R"}
               THEN IF peek_in(chars, 1, Quotes) THEN "string"
                    ELSE IF /\ peek_in(chars, 1, {"b", "B"})
                            /\ peek_in(chars, 2, Quotes)
                    THEN "byte_string"
                    ELSE "identifier"
               ELSE IF c[1] \in {"b", "B"}
               THEN IF \/ peek_in(chars, 1, Quotes)
                       \/ /\ peek_in(chars, 1, {"r", "R"})
                          /\ peek_in(chars, 2, Quotes)
                    THEN "byte_string"
                    ELSE "identifier"
               ELSE IF is_xid_start(c[1]) THEN "identifier"
               ELSE IF c[1] \in DecDigits THEN "number"
               ELSE IF c[1] = "."
               THEN IF peek_in(chars, 1, DecDigits) THEN "number"
                    ELSE "symbols"
               ELSE IF c[1] = "\\" THEN "line_join"
               ELSE IF c[1] \in Quotes THEN "string"
               ELSE "symbols"
        IN
        CASE rule = "end_of_line" -> process_end_of_line(s, current_line)
          [] rule = "string" -> process_string(s, current_line)
          [] rule = "byte_string" -> process_byte_string(s, current_line)
          [] rule = "identifier" ->
                LET r == process_identifier(current_line)
                IN  Ret(s, r.item, r.line)
          [] rule = "number" ->
                LET r == process_number(current_line)
                IN  Ret([s EXCEPT !.radix_one = @ \/ r.radix_one],
                        r.item, r.line)
          [] rule = "line_join" -> process_line_join(s, current_line)
          [] rule = "symbols" -> process_symbols(s, current_line)
   ELSE LET n == lines_next(s)
        IN  IF ~n.ready THEN Suspended(s, "line_start")
            ELSE IF n.line = NoneOpt THEN end_of_lines(n.s)
            ELSE process_line_start(n.s, n.line[1])

\* next_token: the call of next_token_line on the line taken out of
\* self.current_line
next_token(s, current_line_opt) == next_token_line(s, current_line_opt)

\* the rest of a call that was suspended in lines.next(), once the iterator
\* can answer
resume(s, where) ==
   IF where = "continuation" THEN continue_on_next_line(s)
   ELSE IF where \in {"string_line", "string_escape"}
   THEN build_string_next_line([s EXCEPT !.pending = NoneOpt], s.pending[1],
                               where)
   ELSE next_token_line(s, NoneOpt)

RECURSIVE collect(_, _, _, _)
collect(s, current_line_opt, max_items, items) ==
   IF Len(items) >= max_items THEN [items |-> items, s |-> s]
   ELSE LET r == next_token(s, current_line_opt)
        IN  IF r.s.panicked # "" \/ r.item = NoneOpt
            THEN [items |-> items, s |-> r.s]
            ELSE collect(r.s, r.line, max_items, Append(items, r.item[1]))

\* InternalLexer::new(raw_lines) pulled until None, a panic or max_items
\* items: the items in order, and the lexer at the end
lex_all(raw_lines, max_items) ==
   collect([indent_stack |-> <<0>>, dedent_count |-> 0,
            open_braces |-> u32_zero, lines |-> raw_lines, closed |-> TRUE,
            taken |-> 0, pending |-> <<>>, overflowed |-> FALSE,
            radix_one |-> FALSE, panicked |-> ""],
           NoneOpt, max_items, <<>>)

(***************************************************************************)
(* The joining stages.  Lexer is a Peekable over a StringJoiningLexer,     *)
(* which holds a Peekable over a BytesJoiningLexer, which holds a Peekable *)
(* over the InternalLexer.  A Peekable keeps at most one item it has       *)
(* pulled ahead: NoPeek, or Peeked(x) with x what the iterator returned,   *)
(* None included.  Lexer::next only calls next on its own Peekable, whose  *)
(* slot therefore stays empty and is not kept here.  A pipeline p is the   *)
(* InternalLexer (s, line, wait) and the two slots.                        *)
(***************************************************************************)
NoPeek == <<>>
Peeked(x) == << x >>

Pipeline(s, line, bytes_peeked, string_peeked) ==
   [s |-> s, line |-> line, wait |-> "no", bytes_peeked |-> bytes_peeked,
    string_peeked |-> string_peeked]

\* the inner lexer cannot answer: it has panicked or waits for its source
stopped(p) == p.s.panicked # "" \/ p.wait # "no"

is_token(item, kind) ==
   /\ item # NoneOpt
   /\ item[1].ok
   /\ item[1].kind = kind

\* the pipeline after the InternalLexer has run to r
after_internal(p, r) ==
   [p |-> [p EXCEPT !.s = r.s, !.line = r.line, !.wait = r.wait],
    item |-> r.item]

\* Iterator::next of InternalLexer
InternalLexer_next(p) ==
   IF stopped(p) THEN [p |-> p, item |-> NoneOpt]
   ELSE after_internal(p, next_token(p.s, p.line))

\* Peekable::next over the InternalLexer: the held item, or the next one
bytes_lexer_next(p) ==
   IF p.bytes_peeked # NoPeek
   THEN [p |-> [p EXCEPT !.bytes_peeked = NoPeek], item |-> p.bytes_peeked[1]]
   ELSE InternalLexer_next(p)

\* the item n that was pulled is held
bytes_kept(n) ==
   [p |-> [n.p EXCEPT !.bytes_peeked = Peeked(n.item)], item |-> n.item]

\* a peek that does not keep the item it pulled
bytes_lexer_peek_forgets(p) ==
   IF p.bytes_peeked # NoPeek
   THEN [p |-> p, item |-> p.bytes_peeked[1]]
   ELSE InternalLexer_next(p)

\* Peekable::peek over the InternalLexer
bytes_lexer_peek(p) ==
   IF p.bytes_peeked # NoPeek
   THEN [p |-> p, item |-> p.bytes_peeked[1]]
   ELSE bytes_kept(InternalLexer_next(p))

RECURSIVE bytes_follow(_, _, _)
\* token_vec.append(&mut follow), with n what bytes_follows took
bytes_append(n, line_number, token_vec) ==
   bytes_follow(n.p, line_number, token_vec \o n.item[1].data)

\* bytes_follows, with k what the peek gave: a Bytes is taken and appended,
\* anything else ends the loop and stays held
bytes_follows(k, line_number, token_vec) ==
   IF is_token(k.item, "Bytes")
   THEN bytes_append(bytes_lexer_next(k.p), line_number, token_vec)
   ELSE [p |-> k.p,
         item |-> Some(Item(line_number, TokData("Bytes", token_vec)))]

\* while let Some(follow) = self.bytes_follows() { token_vec.append(follow) }
bytes_follow(p, line_number, token_vec) ==
   bytes_follows(bytes_lexer_peek(p), line_number, token_vec)

\* the match in BytesJoiningLexer::next, with n what self.lexer.next() gave
bytes_joined(n) ==
   IF is_token(n.item, "Bytes")
   THEN bytes_follow(n.p, n.item[1].line, n.item[1].data)
   ELSE n

\* Iterator::next of BytesJoiningLexer
BytesJoiningLexer_next(p) == bytes_joined(bytes_lexer_next(p))

\* Peekable::next over the BytesJoiningLexer
string_lexer_next(p) ==
   IF p.string_peeked # NoPeek
   THEN [p |-> [p EXCEPT !.string_peeked = NoPeek],
         item |-> p.string_peeked[1]]
   ELSE BytesJoiningLexer_next(p)

\* the item n that was pulled is held
string_kept(n) ==
   [p |-> [n.p EXCEPT !.string_peeked = Peeked(n.item)], item |-> n.item]

\* Peekable::peek over the BytesJoiningLexer
string_lexer_peek(p) ==
   IF p.string_peeked # NoPeek
   THEN [p |-> p, item |-> p.string_peeked[1]]
   ELSE string_kept(BytesJoiningLexer_next(p))

RECURSIVE string_follow(_, _, _)
\* the literals that follow put in front of the content instead of behind it
string_append_reversed(n, line_number, token_str) ==
   string_follow(n.p, line_number, lexeme(n.item[1]) \o token_str)

\* token_str.push_str(&follow), with n what string_follows took
string_append(n, line_number, token_str) ==
   string_follow(n.p, line_number, token_str \o lexeme(n.item[1]))

\* string_follows, with k what the peek gave: a String is taken and its
\* lexeme appended, anything else ends the loop and stays held
string_follows(k, line_number, token_str) ==
   IF is_token(k.item, "String")
   THEN string_append(string_lexer_next(k.p), line_number, token_str)
   ELSE [p |-> k.p,
         item |-> Some(Item(line_number, TokData("String", token_str)))]

\* while let Some(follow) = self.string_follows() { token_str.push_str(..) }
string_follow(p, line_number, token_str) ==
   string_follows(string_lexer_peek(p), line_number, token_str)

\* the match in StringJoiningLexer::next, with n what self.lexer.next() gave
string_joined(n) ==
   IF is_token(n.item, "String")
   THEN string_follow(n.p, n.item[1].line, n.item[1].data)
   ELSE n

\* Iterator::next of StringJoiningLexer
StringJoiningLexer_next(p) == string_joined(string_lexer_next(p))

\* Iterator::next of Lexer
Lexer_next(p) == StringJoiningLexer_next(p)

(***************************************************************************)
(* The inputs: a buffer of at most MaxLines physical lines, a line being   *)
(* at most MaxIndent blanks followed by at most MaxBody characters, or by  *)
(* one of a few longer bodies with a blank, a bracket or a backslash, or   *)
(* one of a few lines with a literal.  A literal that is open at the end   *)
(* of its line takes all of the next line, whatever it holds: the lines    *)
(* after it are drawn from LiteralRest.                                    *)
(***************************************************************************)
BodyChars == {"x", "(", ")", "#", "$", "\\"}
SpacedBodies == { <<"x", " ">>, <<"x", " ", "x">> }
BracketBodies == { <<"(", ")">>, <<"(", "x">>, <<"x", ")">> }
JoinBodies == { <<"\\", "x">> }
LiteralLines ==
   { <<"'", "x", "'">>, <<"'", "'", "'">>, <<"'", "\\">>, <<"b", "'", "'">>,
     <<" ", "'", "'", "'">>, <<"b", "'", "'", "'">>, <<"'", "x">>,
     <<"b", "'", "\\", "N", "'">>, <<"0", "0", "1">> }
LiteralRest ==
   { <<>>, <<"x">>, <<"x", "\\">>, <<"'">>, <<"'", "'", "'">>,
     <<" ", "'", "'", "'">> }

RECURSIVE SeqsOfLen(_, _)
SeqsOfLen(S, n) ==
   IF n = 0 THEN { <<>> }
   ELSE { <<x>> \o t : x \in S, t \in SeqsOfLen(S, n - 1) }

RECURSIVE Blanks(_)
Blanks(n) == IF n = 0 THEN <<>> ELSE <<" ">> \o Blanks(n - 1)

Bodies ==
   SpacedBodies \cup BracketBodies \cup JoinBodies
      \cup UNION { SeqsOfLen(BodyChars, n) : n \in 0..MaxBody }

InputLines ==
   { Blanks(n) \o b : n \in 0..MaxIndent, b \in Bodies } \cup LiteralLines

\* the inputs of the joining stages: at most MaxJoinLines lines with text and
\* bytes literals next to each other, apart, and on joined lines
JoinLines ==
   { <<"'", "x", "'">>,
     <<"'", "x", "'", "'", "y", "'">>,
     <<"b", "'", "x", "'">>,
     <<"'", "x", "'", "b", "'", "y", "'">>,
     <<"b", "'", "x", "'", "b", "'", "y", "'">>,
     <<"'", "x", "'", "\\">>,
     <<"b", "'", "x", "'", "\\">>,
     <<"'", "x", "'", "\\", "'", "y", "'">>,
     <<" ", "'", "y", "'">>,
     <<"x">> }

JoinInputs == UNION { SeqsOfLen(JoinLines, n) : n \in 0..MaxJoinLines }

(***************************************************************************)
(* The inputs of the scanning functions: source texts as the tests of the  *)
(* repository write them, cut into lines by str::lines.                    *)
(***************************************************************************)
\* str::chars
str_chars(text) == [i \in 1..Len(text) |-> SubSeq(text, i, i)]

\* the line of the characters cs that ends before position e: it starts
\* behind the "\n" before it, and a "\r" right before its "\n" is not part
\* of it
str_line(cs, e) ==
   LET before == { i \in 1..(e - 1) : cs[i] = "\n" }
       first == IF before = {} THEN 1
                ELSE 1 + CHOOSE i \in before : \A j \in before : j <= i
       last == IF e <= Len(cs) /\ e > first /\ cs[e - 1] = "\r"
               THEN e - 2 ELSE e - 1
   IN  SubSeq(cs, first, last)

\* str::lines: a line ends at each "\n", and the end of the text ends the
\* last line if characters follow the last "\n"
str_lines(text) ==
   LET cs == str_chars(text)
       ends == { i \in 1..Len(cs) : cs[i] = "\n" }
                  \cup (IF cs # <<>> /\ cs[Len(cs)] # "\n"
                        THEN { Len(cs) + 1 } ELSE {})
       nth(k) == CHOOSE e \in ends :
                    Cardinality({ i \in ends : i < e }) = k - 1
   IN  [k \in 1..Cardinality(ends) |-> str_line(cs, nth(k))]

\* raw literals: escapes that other literals decode, escaped quotes, a
\* backslash at the end of a line, characters beyond ASCII
RawTexts ==
   { "r'\\n'", "R'\\''", "r\"\\\"\"", "r'a\\'b'x", "r'\\\\'", "r'\\101\\x41'",
     "r'\\u0041\\N{x}'", "r'\\é'", "r'é\\€'", "r'x\\\n \ty'", "r'x\\\ny' z",
     "r'\\", "r'x\\\n", "r'x\\\n\n", "r'x", "r'''\\'''\\\n '''",
     "r'''a\n\tb'''", "r'''x\\",
     "rb'\\n'", "Rb'\\''", "bR\"\\\"\"", "br'a\\'b'x", "rb'\\\\'",
     "rB'\\101\\x41'", "rb'\\é'", "br'\\€'", "rb'é'", "rb'x\\\n \ty'",
     "rb'abc\\' \\\n  \t 123'", "rb'\\", "rb'''\\'''\\\n '''",
     "x r'\\'' rb'\\''" }

\* bytes literals: octal escapes of one to three digits with values below
\* and above 255, hexadecimal escapes, characters beyond ASCII
ByteTexts ==
   { "b'\\7'", "b'\\77'", "b'\\377'", "b'\\400'", "b'\\777'", "b'\\1234'",
     "b'\\78'", "b'\\08'", "B\"\\101\"", "b'é€'", "b'\\700\\300'",
     "b'\\x26\\040'", "b'\\x26\\040\\700\\300'", "b'''\\700\n \\300'''",
     "b'\\xfF\\x4'", "x b'\\400' b'\\401'", "b'a\\n\\\\'", "b'\\47'3'" }

\* numbers: every text of at most MaxNumber characters of NumberChars, and
\* longer ones, with the other digits, letters and signs of a number
NumberChars == {"0", "1", "b", "x", "e", "j", ".", "+"}
NumberTexts ==
   { "1 123 456 45 23.742 23. 12..3 .14 0123.2192 077e010 12e17 12e+17",
     "12E-17 0 00000 00003 0.2 .e12 0o724 0X32facb7 0b10101010 0x",
     "00000e+00000 79228162514264337593543950336 0xdeadbeef 037j 2.3j 2.j",
     ".3j . 3..2", "0123", "09", "0008", "00.0", "000J", "010E-1J", "08.5j",
     "0O", "0B2", "0o8", "0XG", "0b1J", "0o7.1", "0xFj", "0B1e1", "0o1E+1",
     "1E", "1e-", "1E+x", "1.e", "0e+", ".1E-", "1e1e1", "1j1j", "1.1.1",
     "0b1_", "0é", "1€" }

\* operators: every text of at most MaxSymbol characters of OperatorChars,
\* and the other operators, next to each other and between names and
\* numbers
OperatorChars == {"*", "=", "-", ">", ".", "!", "<", "/"}
OperatorTexts ==
   { "(){}[]:,.;..===@->+=-=*=/=//=%=@=&=|=^=>>=<<=**=+-***///%@<<>>&|^~",
     "<><=>===!=!...", "**=", "//=", ">>=", "<<=", "+=", "@=", "%=", "&=",
     "|=", "^=", "+", "@", "%", "&", "|", "^", "~", "+ =", "* *", "- >",
     ". . .", "....", "x+1", "x = y.z # a+b", "a->b", "f(x)[1]", "x!y",
     "1 +\t2\n# c\n3", "x**=2", "a!=b" }

\* indentation: every run of at most MaxBlanks whitespace characters before
\* a name, and longer runs with a tab at and next to a tab stop
SpaceChars == {" ", "\t", "\f", "\r"}
IndentTexts ==
   { "abf  \f _xyz\n   \n  e2f\n  \tmq3\nn12\\\r\nn3\\ \n  n23\n    n24",
     "   n25     # monkey says what?  \n", "       \tx", "        \tx",
     "\t       \tx", "\t    \t \tx", "  \t#\n\tx\n  \ty\n \f\r\tz",
     "\t\t\t\t\t", "\tx\r\n\t\ty" }

\* names: every text of at most MaxWord characters of WordChars, which
\* spell a keyword, names and literal prefixes before and away from a
\* quote; the reserved words and names close to them
WordChars == {"i", "f", "r", "b", "u", "'", "_"}
WordTexts ==
   { "false False None True and as assert async await break class continue",
     "def del defdel elif else except finally for from ",
     "global if import in is lambda nonlocal not or pass raise return try",
     "while with yield", "none NONE true TRUE If iF AND Def", "if_ _if if1",
     "ifif elseif notin isnot yield2 None_ é défi ifé", "x+if(y)",
     "u'x' U\"x\" ux u u1 u_ u 'x'", "ur'x'", "uR\"x\"", "ub'x'", "uu'x'",
     "r R rx r_ r1 r 'x'", "b B bx b_ b1 b 'x'", "rb br rB Br rbx brx",
     "rb 'x'", "br \"x\"", "rr'x'", "bb'x'", "rbr'x'", "brb'x'", "bu'x'",
     "ru'x'", "b'x' r'x' u'x' rb'x' br'x' Rb'x' bR'x' BR'x' RB'x'",
     "abf  \f _xyz", "e2f mq3 n12" }

\* the hexadecimal digits of the generated escapes: with them the values of
\* four digits lie below, in and above the surrogate range
HexChars == {"0", "8", "d"}

\* the escapes \x, \u and \U in a text literal and \x in a bytes literal,
\* up to the digits
EscapeStarts == { "'\\x", "b'\\x", "'\\u", "'\\U" }

\* escapes with too few, just enough and too many digits, values that are
\* no character, and escapes that fail in the middle of a line
EscapeTexts ==
   { "'\\x'", "'\\x7'", "'\\x07'", "'\\x4142'", "\"\\xfF\\x4g\"", "'\\xg1'",
     "'\\x", "'\\x4", "b'\\x'", "b'\\x7'", "b'\\x4142'", "B\"\\xAb\\xcD9\"",
     "'\\u262f'\n'\\U00002D5E'", "'\\u262'", "'\\U00002D'", "'\\u262f262f'",
     "'\\u'", "'\\U'", "'\\u26", "'\\u00e9\\u20AC'", "'\\U0001F4120'",
     "'\\U0001f40", "'\\u004g'", "'\\U0000004G'", "'a\\x41b\\u0042c'",
     "'\\ud7ff'", "'\\ud800'", "'\\udBfF'", "'\\uDFFF'", "'\\ue000'",
     "'\\uffff'", "'\\U0000d800'", "'\\U0000DFFF'", "'\\U0000e000'",
     "'\\U0010FFFF'", "'\\U00110000'", "'\\U7fffffff'", "'\\UFFFFFFFF'",
     "'\\U000d8000'", "x = '\\ud800' + y", "'''a\n\\udc00'''",
     "'ab\\xg+1", "'ab\\x7+1", "'ab\\x' 1", "x 'a\\u12.5' y", "'\\U0000 1'",
     "'\\N{nope}+2", "'\\Nx", "'\\N{ab", "'a\\N{monkey}b'", "'\\N{space}'",
     "b'a\\é.b'", "b'\\€", "b'ab\\xg+1", "b'\\x1' b'\\x'", "rb'a\\é1 2",
     "'''a\nb\\x1 + c", "b'''a\n\nb\\é(c", "'a\\\n \\xz", "('\\xz'\n)",
     "  x\n '\\u1", "'\\x4'\n'\\x41'" }

\* indentation: lines that go back to a width that is no level of the
\* stack, with lines of the same width, blank lines, comments, brackets and
\* joined lines after them
LayoutTexts ==
   { "x\n    y\n  z\n  w", "x\n    y\n  z\n\n  # c\n  w\n  v",
     "x\n  y\n    z\n   w\n   v\n  u", "x\n\ty\n  z\n  w\nv",
     "  a\n      b\n    c\n    d", "x\n    y\n  (z\n  w)\n  v",
     "x\n    y\n  z \\\n  w\n  v", "x\n    y\n  z\n    w\n  v",
     "x\n   y\n      z\n y\n y\nx", "    abf xyz\n\n\n\n        e2f\n"
        \o "             n12\n  n2\n" }

ScanTexts ==
   RawTexts \cup ByteTexts \cup NumberTexts \cup OperatorTexts
      \cup IndentTexts \cup WordTexts \cup EscapeTexts \cup LayoutTexts

ScanInputs ==
   { str_lines(text) : text \in ScanTexts }
      \cup { << number >> :
                 number \in UNION { SeqsOfLen(NumberChars, n) :
                                       n \in 1..MaxNumber } }
      \cup { << blanks \o << "x" >> >> :
                 blanks \in UNION { SeqsOfLen(SpaceChars, n) :
                                       n \in 1..MaxBlanks } }
      \cup { << word >> :
                 word \in UNION { SeqsOfLen(WordChars, n) :
                                     n \in 1..MaxWord } }
      \cup { << operators >> :
                 operators \in UNION { SeqsOfLen(OperatorChars, n) :
                                          n \in 1..MaxSymbol } }
      \cup { [i \in 1..Len(widths) |-> Blanks(widths[i]) \o << "x" >>] :
                 widths \in UNION { SeqsOfLen(0..MaxIndent, n) :
                                       n \in 1..MaxLayout } }
      \cup { << str_chars(start) \o digits \o << "'" >> >> :
                 start \in EscapeStarts,
                 digits \in UNION { SeqsOfLen(HexChars, n) :
                                       n \in 0..MaxHex } }

(***************************************************************************)
(* The Lexer of lib.rs, the first version of the scanner.  Its tokens are  *)
(* strings: an item is (line number, Ok(text)) or (line number,            *)
(* Err(message)), the kind of the item records being left empty.  A lexer  *)
(* state s is the record of the scanner above, of which this Lexer has     *)
(* indent_stack, dedent_count and the line iterator; its iterator is over  *)
(* a text that is whole, so lines.next() never waits.                      *)
(***************************************************************************)
\* Ok(text) and Err(message) of ResultToken
Lexer_Ok(text) == [ok |-> TRUE, kind |-> "", text |-> text, data |-> <<>>]
Lexer_Err(message) ==
   [ok |-> FALSE, kind |-> "", text |-> message, data |-> <<>>]

RECURSIVE Lexer_count_from(_, _)
Lexer_count_from(chars, count) ==
   IF chars # <<>> /\ is_space(Head(chars))
   THEN Lexer_count_from(Tail(chars), process_character(count, Head(chars)))
   ELSE [count |-> count, chars |-> chars]

\* the count, and the characters left in the iterator
Lexer_count_indentation(chars) == Lexer_count_from(chars, 0)

\* the closure of Lexer::new that turns the n-th raw line into a Line
Lexer_new_line(n, raw) ==
   LET ci == Lexer_count_indentation(raw)
   IN  [number |-> n, indentation |-> ci.count, chars |-> ci.chars]

\* self.lines.next()
Lexer_lines_next(s) ==
   IF s.lines # <<>>
   THEN [s |-> [s EXCEPT !.lines = Tail(@), !.taken = @ + 1],
         line |-> Some(Lexer_new_line(s.taken + 1, Head(s.lines)))]
   ELSE [s |-> s, line |-> NoneOpt]

Lexer_consume_space_to_next(current_line) ==
   [current_line EXCEPT !.chars = skip_spaces(@)]

\* the predicate is given as the set of characters it accepts
Lexer_consume_and_while(token, line, accepted) ==
   push_while(token \o Head(line.chars),
              [line EXCEPT !.chars = Tail(@)], accepted)

Lexer_build_identifier(line) ==
   LET w == Lexer_consume_and_while("", line, XidContinue)
   IN  [line |-> w.line, res |-> Lexer_Ok(w.str)]

Lexer_process_identifier(current_line) ==
   LET b == Lexer_build_identifier(current_line)
   IN  [item |-> Some(Item(current_line.number, b.res)),
        line |-> Some(b.line)]

Lexer_require_radix_digits(token, line, radix) ==
   IF peek_in(line.chars, 0, DigitsOf(radix))
   THEN LET w == Lexer_consume_and_while(token, line, DigitsOf(radix))
        IN  [line |-> w.line, res |-> Lexer_Ok(w.str)]
   ELSE [line |-> line, res |-> Lexer_Err("** Missing digits: " \o token)]

\* rtoken is the result so far and the line after it
Lexer_build_point_float(rtoken) ==
   IF ~rtoken.res.ok THEN rtoken
   ELSE IF ~peek_in(rtoken.line.chars, 0, {"."}) THEN rtoken
   ELSE LET dot == push_next(rtoken.res.text, rtoken.line)
        IN  IF peek_in(dot.line.chars, 0, DecDigits)
            THEN LET w == Lexer_consume_and_while(dot.str, dot.line,
                                                  DecDigits)
                 IN  [line |-> w.line, res |-> Lexer_Ok(w.str)]
            ELSE [line |-> dot.line, res |-> Lexer_Ok(dot.str)]

Lexer_build_exp_float(rtoken) ==
   IF ~rtoken.res.ok THEN rtoken
   ELSE IF ~peek_in(rtoken.line.chars, 0, {"e", "E"}) THEN rtoken
   ELSE LET e == push_next(rtoken.res.text, rtoken.line)
            sign == IF peek_in(e.line.chars, 0, {"+", "-"})
                    THEN push_next(e.str, e.line)
                    ELSE e
        IN  Lexer_require_radix_digits(sign.str, sign.line, 10)

Lexer_build_float_part(rtoken) ==
   Lexer_build_exp_float(Lexer_build_point_float(rtoken))

Lexer_require_float_part(token, line) ==
   IF ~peek_in(line.chars, 0, {".", "e", "E"})
   THEN [line |-> line,
         res |-> Lexer_Err("** missing float part: " \o token)]
   ELSE Lexer_build_exp_float(
           Lexer_build_point_float([line |-> line, res |-> Lexer_Ok(token)]))

Lexer_build_decimal_number(line) ==
   LET w == Lexer_consume_and_while("", line, DecDigits)
   IN  [line |-> w.line, res |-> Lexer_Ok(w.str)]

\* with radix_one: the call evaluated c.is_digit(1)
Lexer_build_zero_prefixed_number(line) ==
   LET zero == push_next("", line)
       c == peek(zero.line.chars)
       prefix == push_next(zero.str, zero.line)
       zeros == Lexer_consume_and_while(zero.str, zero.line, DigitsOf(1))
       more == Lexer_consume_and_while(zeros.str, zeros.line, DecDigits)
       digits == Lexer_consume_and_while(zero.str, zero.line, DecDigits)
   IN  with_radix_one(
          CASE c \in {Some("o"), Some("O")} ->
                  Lexer_require_radix_digits(prefix.str, prefix.line, 8)
            [] c \in {Some("x"), Some("X")} ->
                  Lexer_require_radix_digits(prefix.str, prefix.line, 16)
            [] c \in {Some("b"), Some("B")} ->
                  Lexer_require_radix_digits(prefix.str, prefix.line, 2)
            [] c = Some("0") ->
                  IF peek_in(zeros.line.chars, 0, DecDigits)
                  THEN Lexer_require_float_part(more.str, more.line)
                  ELSE Lexer_build_float_part(
                          [line |-> zeros.line, res |-> Lexer_Ok(zeros.str)])
            [] c # NoneOpt /\ c # Some("0") /\ c[1] \in DecDigits ->
                  Lexer_require_float_part(digits.str, digits.line)
            [] OTHER -> [line |-> zero.line, res |-> Lexer_Ok(zero.str)],
          \* the predicate runs once a character follows the second 0
          c = Some("0") /\ Len(zero.line.chars) > 1)

Lexer_build_number(line) ==
   LET first == Head(line.chars)
   IN  IF first = "0" THEN Lexer_build_zero_prefixed_number(line)
       ELSE IF first = "."
       THEN with_radix_one(
               Lexer_build_exp_float(
                  Lexer_build_point_float(
                     [line |-> line, res |-> Lexer_Ok("")])),
               FALSE)
       ELSE with_radix_one(
               Lexer_build_exp_float(
                  Lexer_build_point_float(Lexer_build_decimal_number(line))),
               FALSE)

Lexer_process_number(current_line) ==
   LET b == Lexer_build_number(current_line)
   IN  [item |-> Some(Item(current_line.number, b.res)),
        line |-> Some(b.line), radix_one |-> b.radix_one]

Lexer_process_newline(s, current_line) ==
   Ret(s, Some(Item(current_line.number, Lexer_Ok("*newline*"))), NoneOpt)

Lexer_process_dedents(s, current_line) ==
   IF s.dedent_count = -1
   THEN Ret([s EXCEPT !.dedent_count = 0],
            Some(Item(current_line.number, Lexer_Ok("** DEDENT ERROR **"))),
            Some(current_line))
   ELSE Ret([s EXCEPT !.dedent_count =
                         @ + (IF @ < 0 THEN 1 ELSE -1)],
            Some(Item(current_line.number, Lexer_Ok("** DEDENT **"))),
            Some(current_line))

RECURSIVE Lexer_next_token_line(_, _)
RECURSIVE Lexer_process_line_start(_, _)

Lexer_process_line_join(s, current_line) ==
   LET rest == [current_line EXCEPT !.chars = Tail(@)]
       n == Lexer_lines_next(s)
   IN  IF rest.chars = <<>>
       THEN \* explicit line join
            Lexer_next_token_line(n.s, n.line)
       ELSE Ret(s, Some(Item(rest.number, Lexer_Err("** bad \\ **"))),
                Some(rest))

RECURSIVE Lexer_dedent_index(_, _, _)
\* the while loop of process_line_start: i is the index of the code, counted
\* from 0, plus one; 0 is where i -= 1 is reached at index 0
Lexer_dedent_index(indent_stack, indentation, i) ==
   IF i >= 1 /\ indentation < indent_stack[i]
   THEN Lexer_dedent_index(indent_stack, indentation, i - 1)
   ELSE i

Lexer_process_line_start(s, newline) ==
   IF s.indent_stack = <<>>
   THEN Panic(s, "Internal indentation stack error!")
   ELSE
   LET previous_indent == s.indent_stack[Len(s.indent_stack)]
       stack_len == Len(s.indent_stack)
       i == Lexer_dedent_index(s.indent_stack, newline.indentation,
                               stack_len)
       count == stack_len - i
   IN  IF newline.chars = <<>>
       THEN Lexer_next_token_line(s, NoneOpt)
       ELSE IF newline.indentation > previous_indent
       THEN Ret([s EXCEPT !.indent_stack = Append(@, newline.indentation)],
                Some(Item(newline.number, Lexer_Ok("** INDENT **"))),
                Some(newline))
       ELSE IF newline.indentation < previous_indent
       THEN IF i = 0
            THEN \* i -= 1 at index 0
                 Panic(s, "attempt to subtract with overflow")
            ELSE Lexer_next_token_line(
                    [s EXCEPT !.indent_stack = SubSeq(@, 1, i),
                              !.dedent_count =
                                 IF s.indent_stack[i] # newline.indentation
                                 THEN -count ELSE count],
                    Some(newline))
       ELSE Lexer_next_token_line(s, Some(newline))

Lexer_next_token_line(s, current_line) ==
   IF current_line # NoneOpt
   THEN IF s.dedent_count # 0
        THEN Lexer_process_dedents(s, current_line[1])
        ELSE LET line == Lexer_consume_space_to_next(current_line[1])
                 c == peek(line.chars)
             IN  IF c # NoneOpt /\ is_xid_start(c[1])
                 THEN LET r == Lexer_process_identifier(line)
                      IN  Ret(s, r.item, r.line)
                 ELSE IF c # NoneOpt /\ (c[1] \in DecDigits \/ c[1] = ".")
                 THEN LET r == Lexer_process_number(line)
                      IN  Ret([s EXCEPT !.radix_one = @ \/ r.radix_one],
                              r.item, r.line)
                 ELSE IF c = Some("\\")
                 THEN Lexer_process_line_join(s, line)
                 ELSE IF c # NoneOpt
                 THEN Ret(s, NoneOpt, Some(line))
                 ELSE Lexer_process_newline(s, line)
   ELSE LET n == Lexer_lines_next(s)
        IN  IF n.line = NoneOpt
            THEN IF Len(s.indent_stack) <= 1
                 THEN Ret(s, NoneOpt, NoneOpt)
                 ELSE Ret(s, Some(Item(0, Lexer_Ok("** DEDENT **"))),
                          NoneOpt)
            ELSE Lexer_process_line_start(n.s, n.line[1])

\* let current_line = self.current_line.take(); ...
Lexer_next_token(s, current_line) == Lexer_next_token_line(s, current_line)

(***************************************************************************)
(* DoublePeekable<I> (iter.rs): an iterator with its next two items held   *)
(* in first and second.  The iterator I is finite: the items it has left,  *)
(* and None from then on.                                                  *)
(***************************************************************************)
\* I::next: the item and the iterator after the call
iter_next(it) ==
   IF it = <<>> THEN [item |-> NoneOpt, iter |-> it]
   ELSE [item |-> Some(Head(it)), iter |-> Tail(it)]

\* DoublePeekable::new
DoublePeekable_new(it) ==
   LET a == iter_next(it)
       b == iter_next(a.iter)
   IN  [first |-> a.item, second |-> b.item, iter |-> b.iter]

\* DoublePeekable::peek
DoublePeekable_peek(self) == self.first

\* DoublePeekable::peek_second
peek_second(self) == self.second

\* get_next that refills first from the iterator and leaves second alone
get_next_skips_second(self) ==
   LET n == iter_next(self.iter)
   IN  [result |-> self.first,
        self |-> [first |-> n.item, second |-> self.second, iter |-> n.iter]]

\* DoublePeekable::get_next: the item returned and self after the call
get_next(self) ==
   LET n == iter_next(self.iter)
   IN  [result |-> self.first,
        self |-> IF self.second # NoneOpt
                 THEN [first |-> self.second, second |-> n.item,
                       iter |-> n.iter]
                 ELSE [first |-> NoneOpt, second |-> NoneOpt,
                       iter |-> self.iter]]

\* Iterator::next of DoublePeekable
DoublePeekable_next(self) == get_next(self)

\* the items of the iterators, and the iterators: 1..6 of test_peek among
\* them at the raised bound
PeekItems == {1, 2, 3}
PeekSources == UNION { SeqsOfLen(PeekItems, n) : n \in 0..MaxItems }

(***************************************************************************)
(* The state machine: one InternalLexer, its consumer, and the source of   *)
(* its line iterator.                                                      *)
(***************************************************************************)
VARIABLES
   indent_stack,     \* Vec<u32>
   dedent_count,     \* i32, negative to flag a misalignment
   open_braces,      \* u32
   lines,            \* the raw lines the iterator holds
   closed,           \* the iterator's source is at its end
   taken,            \* how many lines the iterator has produced
   pending,          \* the literal the suspended pull is scanning, as an
                     \* Option
   current_line,     \* Option<Line>
   build,            \* "any", or "wrapping" once an overflow has wrapped:
                     \* the build has no overflow checks
   waiting,          \* "no", or where the pull in progress is suspended
   status,           \* "fresh", "active" (last pull returned an item),
                     \* "ended" (last pull returned None), "panicked"
   panic,            \* the panic message, "" while there is none
   result,           \* what the last pull returned: Option<item>
   bytes_peeked,     \* the slot of the Peekable in BytesJoiningLexer
   string_peeked,    \* the slot of the Peekable in StringJoiningLexer
   peekable,         \* DoublePeekable: first and second, each an
                     \* Option<I::Item>, and iter, the items the iterator
                     \* has left
   source,           \* the items of the iterator the DoublePeekable was
                     \* made of
   yielded,          \* the items that next() of the DoublePeekable has
                     \* returned
   called,           \* the last call on the DoublePeekable and what it
                     \* returned
   layout_balance    \* the Ok(Indent) items the pulls have returned so
                     \* far, less the Ok(Dedent) and the Error(Dedent) items

lexer_vars ==
   << indent_stack, dedent_count, open_braces, lines, closed, taken,
      pending, current_line, build, waiting, status, panic, result,
      bytes_peeked, string_peeked, layout_balance >>

peekable_vars == << peekable, source, yielded, called >>

vars == << indent_stack, dedent_count, open_braces, lines, closed, taken,
           pending, current_line, build, waiting, status, panic, result,
           bytes_peeked, string_peeked, peekable, source, yielded,
           called, layout_balance >>

\* no DoublePeekable is made
NoPeekable ==
   /\ peekable = [first |-> NoneOpt, second |-> NoneOpt, iter |-> <<>>]
   /\ source = <<>>
   /\ yielded = <<>>
   /\ called = [op |-> "none", ret |-> NoneOpt]

\* InternalLexer::new(lines)
Init ==
   /\ indent_stack = <<0>>
   /\ dedent_count = 0
   /\ open_braces = u32_zero
   /\ lines = <<>>
   /\ closed = FALSE
   /\ taken = 0
   /\ pending = NoneOpt
   /\ current_line = NoneOpt
   /\ build = "any"
   /\ waiting = "no"
   /\ status = "fresh"
   /\ panic = ""
   /\ result = NoneOpt
   /\ bytes_peeked = NoPeek
   /\ string_peeked = NoPeek
   /\ NoPeekable
   /\ layout_balance = 0

Self ==
   [indent_stack |-> indent_stack, dedent_count |-> dedent_count,
    open_braces |-> open_braces, lines |-> lines, closed |-> closed,
    taken |-> taken, pending |-> pending, overflowed |-> FALSE,
    radix_one |-> FALSE, panicked |-> ""]

\* the pull runs to its return, to a panic, or to the next lines.next() that
\* has to wait for the source.  An overflow is a panic in a build with
\* overflow checks and wraps in any other; which build this is shows at the
\* first overflow.  A pull that evaluates is_digit(1) panics with a standard
\* library that requires a radix of 2 at least and goes on with any other;
\* each such pull may go either way.
Run(r) ==
   \E trap \in (IF r.s.overflowed /\ build = "any" THEN BOOLEAN ELSE {FALSE}),
      strict \in (IF r.s.radix_one THEN BOOLEAN ELSE {FALSE}) :
      IF r.s.panicked # "" \/ trap \/ strict
      THEN /\ status' = "panicked"
           /\ panic' = IF r.s.panicked # "" THEN r.s.panicked
                       ELSE IF trap THEN "arithmetic overflow"
                       ELSE "to_digit: invalid radix"
           /\ waiting' = "no"
           /\ UNCHANGED << indent_stack, dedent_count, open_braces, lines,
                           closed, taken, pending, current_line, build,
                           result >>
      ELSE /\ indent_stack' = r.s.indent_stack
           /\ dedent_count' = r.s.dedent_count
           /\ open_braces' = r.s.open_braces
           /\ lines' = r.s.lines
           /\ closed' = r.s.closed
           /\ taken' = r.s.taken
           /\ pending' = r.s.pending
           /\ current_line' = r.line
           /\ waiting' = r.wait
           /\ build' = IF r.s.overflowed THEN "wrapping" ELSE build
           /\ IF r.wait = "no"
              THEN /\ result' = r.item
                   /\ status' = IF r.item = NoneOpt THEN "ended" ELSE "active"
              ELSE UNCHANGED << result, status >>
           /\ UNCHANGED panic

\* what the item that a pull returns adds to the count of the Indents
\* less the Dedents
layout_step(item) ==
   IF item = NoneOpt THEN 0
   ELSE IF item[1].ok /\ item[1].kind = "Indent" THEN 1
   ELSE IF item[1].kind = "Dedent" THEN -1
   ELSE 0

\* the step counts the item if the pull returns one
Counted ==
   layout_balance' =
      IF waiting' = "no" /\ status' # "panicked"
      THEN layout_balance + layout_step(result')
      ELSE layout_balance

\* Iterator::next of InternalLexer: the consumer pulls
Pull ==
   /\ status # "panicked"
   /\ waiting = "no"
   /\ Run(next_token(Self, current_line))
   /\ Counted
   /\ UNCHANGED << bytes_peeked, string_peeked >>
   /\ UNCHANGED peekable_vars

\* the source supplies the line the suspended pull waits for
SupplyLine ==
   /\ waiting # "no"
   /\ ~closed
   /\ taken < MaxLines
   /\ \E raw \in (IF pending = NoneOpt THEN InputLines ELSE LiteralRest) :
         Run(resume([Self EXCEPT !.lines = <<raw>>], waiting))
   /\ Counted
   /\ UNCHANGED << bytes_peeked, string_peeked >>
   /\ UNCHANGED peekable_vars

\* the source is at its end: lines.next() returns None
SupplyEnd ==
   /\ waiting # "no"
   /\ ~closed
   /\ Run(resume([Self EXCEPT !.closed = TRUE], waiting))
   /\ Counted
   /\ UNCHANGED << bytes_peeked, string_peeked >>
   /\ UNCHANGED peekable_vars

Next == Pull \/ SupplyLine \/ SupplyEnd

Spec == Init /\ [][Next]_vars

\* the consumer keeps pulling, and the source answers
FairSpec == Spec /\ WF_vars(Pull) /\ WF_vars(SupplyLine \/ SupplyEnd)

(***************************************************************************)
(* The state machine of the whole Lexer: the three stages over a source    *)
(* that holds all of its lines from the start, pulled by its consumer.     *)
(***************************************************************************)
\* Lexer::new(lines)
LexerInit ==
   /\ indent_stack = <<0>>
   /\ dedent_count = 0
   /\ open_braces = u32_zero
   /\ lines \in JoinInputs
   /\ closed = TRUE
   /\ taken = 0
   /\ pending = NoneOpt
   /\ current_line = NoneOpt
   /\ build = "any"
   /\ waiting = "no"
   /\ status = "fresh"
   /\ panic = ""
   /\ result = NoneOpt
   /\ bytes_peeked = NoPeek
   /\ string_peeked = NoPeek
   /\ NoPeekable
   /\ layout_balance = 0

Stages == Pipeline(Self, current_line, bytes_peeked, string_peeked)

\* the pull returns n.item and leaves the stages as n.p
LexerReturn(n) ==
   /\ Run([s |-> n.p.s, item |-> n.item, line |-> n.p.line,
           wait |-> n.p.wait])
   /\ bytes_peeked' = n.p.bytes_peeked
   /\ string_peeked' = n.p.string_peeked

\* Iterator::next of Lexer: the consumer pulls
LexerPull ==
   /\ status # "panicked"
   /\ LexerReturn(Lexer_next(Stages))
   /\ UNCHANGED peekable_vars
   /\ UNCHANGED layout_balance

LexerNext == LexerPull

LexerSpec == LexerInit /\ [][LexerNext]_vars

(***************************************************************************)
(* The state machine of one InternalLexer over a source text that is whole *)
(* from the start: the scanning functions applied from every position the  *)
(* pulls reach.                                                            *)
(***************************************************************************)
\* InternalLexer::new(text.lines())
ScanInit ==
   /\ indent_stack = <<0>>
   /\ dedent_count = 0
   /\ open_braces = u32_zero
   /\ lines \in ScanInputs
   /\ closed = TRUE
   /\ taken = 0
   /\ pending = NoneOpt
   /\ current_line = NoneOpt
   /\ build = "any"
   /\ waiting = "no"
   /\ status = "fresh"
   /\ panic = ""
   /\ result = NoneOpt
   /\ bytes_peeked = NoPeek
   /\ string_peeked = NoPeek
   /\ NoPeekable
   /\ layout_balance = 0

ScanNext == Pull

ScanSpec == ScanInit /\ [][ScanNext]_vars

(***************************************************************************)
(* The state machine of one DoublePeekable and its caller.                 *)
(***************************************************************************)
\* DoublePeekable::new(source)
PeekInit ==
   /\ source \in PeekSources
   /\ peekable = DoublePeekable_new(source)
   /\ yielded = <<>>
   /\ called = [op |-> "new", ret |-> NoneOpt]
   /\ indent_stack = <<0>>
   /\ dedent_count = 0
   /\ open_braces = u32_zero
   /\ lines = <<>>
   /\ closed = TRUE
   /\ taken = 0
   /\ pending = NoneOpt
   /\ current_line = NoneOpt
   /\ build = "any"
   /\ waiting = "no"
   /\ status = "fresh"
   /\ panic = ""
   /\ result = NoneOpt
   /\ bytes_peeked = NoPeek
   /\ string_peeked = NoPeek
   /\ layout_balance = 0

\* the caller calls peek()
Peek ==
   /\ called' = [op |-> "peek", ret |-> DoublePeekable_peek(peekable)]
   /\ UNCHANGED << peekable, source, yielded >>
   /\ UNCHANGED lexer_vars

\* the caller calls peek_second()
PeekSecond ==
   /\ called' = [op |-> "peek_second", ret |-> peek_second(peekable)]
   /\ UNCHANGED << peekable, source, yielded >>
   /\ UNCHANGED lexer_vars

\* the caller calls next()
PeekableNext ==
   LET n == DoublePeekable_next(peekable)
   IN  /\ peekable' = n.self
       /\ called' = [op |-> "next", ret |-> n.result]
       /\ yielded' = IF n.result = NoneOpt THEN yielded
                     ELSE Append(yielded, n.result[1])
       /\ UNCHANGED source
       /\ UNCHANGED lexer_vars

PeekNext == Peek \/ PeekSecond \/ PeekableNext

PeekSpec == PeekInit /\ [][PeekNext]_vars

\* the texts of the tests of lib.rs, and texts that end inside a block
LexerTexts ==
   { "abf  \f _xyz\n   \n  e2f\n  \tmq3\nn12\\\r\nn3\\ \n  n23\n    n24\n"
        \o "   n25\n",
     "123 456 45 23.742 23. 12..3 .14 0123.2192 12e17 12e+17 12E-17 0"
        \o " 00000 00003 0o724 0X32facb7 0b10101010 0x\n",
     "    abf xyz\n\n\n\n        e2f\n             n12\n  n2\n",
     "  x", "  x\n", "a\n  b\n    c\n", "a\n  b \\\n    c", "  a\n\n",
     "a\n  b\n  # c\n", "a\n  b\n c\n", "a\n  b = 1\n  c\n", "  a\\" }

LexerInputs ==
   { str_lines(text) : text \in LexerTexts }
      \cup { << number >> :
                 number \in UNION { SeqsOfLen(NumberChars, n) :
                                       n \in 1..MaxNumber } }
      \cup { [i \in 1..Len(widths) |-> Blanks(widths[i]) \o << "x" >>] :
                 widths \in UNION { SeqsOfLen(0..MaxIndent, n) :
                                       n \in 1..MaxLayout } }

(***************************************************************************)
(* The state machine of one Lexer of lib.rs over a whole source text.      *)
(***************************************************************************)
\* Lexer::new(text.lines_any())
LegacyInit ==
   /\ indent_stack = <<0>>
   /\ dedent_count = 0
   /\ open_braces = u32_zero
   /\ lines \in LexerInputs
   /\ closed = TRUE
   /\ taken = 0
   /\ pending = NoneOpt
   /\ current_line = NoneOpt
   /\ build = "any"
   /\ waiting = "no"
   /\ status = "fresh"
   /\ panic = ""
   /\ result = NoneOpt
   /\ bytes_peeked = NoPeek
   /\ string_peeked = NoPeek
   /\ NoPeekable
   /\ layout_balance = 0

\* Iterator::next of Lexer: the consumer pulls
LegacyPull ==
   /\ status # "panicked"
   /\ Run(Lexer_next_token(Self, current_line))
   /\ UNCHANGED << bytes_peeked, string_peeked, layout_balance >>
   /\ UNCHANGED peekable_vars

LegacyNext == LegacyPull

LegacySpec == LegacyInit /\ [][LegacyNext]_vars


(***************************************************************************)
(* Properties.  What a pull returns is read off the scanning functions at  *)
(* the reachable states: for a pull that is about to run, or, where the    *)
(* pull waits for its next line, for every line the source may supply.     *)
(***************************************************************************)
stack_top(stack) == stack[Len(stack)]

\* the line is evaluated as a statement line: not blank, not a comment
has_statement(l) == l.chars # <<>> /\ Head(l.chars) # "#"

on_stack(stack, w) == \E i \in 1..Len(stack) : stack[i] = w
levels_above(stack, w) == Cardinality({ i \in 1..Len(stack) : stack[i] > w })
levels_up_to(stack, w) == SelectSeq(stack, LAMBDA e : e <= w)

\* the lexer with the line it waits for supplied, or with its source ended
offered(raw) == [Self EXCEPT !.lines = <<raw>>]
at_end == [Self EXCEPT !.closed = TRUE]

RECURSIVE nth_pull(_, _)
\* what the n-th of n successive pulls returns, the first one being r
nth_pull(r, n) ==
   IF n <= 1 \/ r.wait # "no" \/ r.s.panicked # "" THEN r
   ELSE nth_pull(next_token(r.s, r.line), n - 1)

idle == waiting = "no" /\ status # "panicked"
at_line_start == waiting = "line_start" /\ ~closed

\* the characters next_token_line and build_symbol have no rule for
no_rule(c) ==
   /\ ~is_space(c)
   /\ ~is_xid_start(c)
   /\ c \notin DecDigits
   /\ c \notin SymbolStarts
   /\ c \notin {"#", "\\", "'", "\""}

\* C1: repeated pulls return None in the end on every finite input.  The
\* lexer is deterministic, so no pull may hand out an item and leave the
\* lexer and its cursor exactly as they were: from there every later pull
\* hands out the same item again and None is never returned.
C1_EveryItemMakesProgress ==
   idle =>
      LET r == next_token(Self, current_line)
      IN  ~(/\ r.wait = "no"
            /\ r.item # NoneOpt
            /\ r.s = Self
            /\ r.line = current_line)

\* C2: a pull with the cursor at a character no rule matches returns
\* Error(InvalidSymbol(c)) for the current line and leaves the cursor
\* exactly one character further.
C2_InvalidSymbolAdvances ==
   (idle /\ current_line # NoneOpt /\ dedent_count = 0) =>
      LET line == consume_space_to_next(current_line[1])
          r == next_token(Self, current_line)
      IN  (line.chars # <<>> /\ no_rule(Head(line.chars))) =>
             /\ r.item = Some(Item(line.number,
                                   ErrText("InvalidSymbol", Head(line.chars))))
             /\ r.line = Some([line EXCEPT !.chars = Tail(@)])

\* C3: when the source ends with the indent stack at depth d, the next d-1
\* pulls pop one level each and return Ok(Dedent) with line number 0, every
\* pull after them returns None, and None is only returned at depth 1.  The
\* pull that finds the source at its end inside a literal returns the error
\* of the unterminated literal and leaves the stack alone; the d-1 Dedents
\* are the pulls after it.
C3_EndOfInputUnwinds ==
   (waiting # "no" /\ ~closed) =>
      LET d == Len(indent_stack)
          in_literal == waiting \in {"string_line", "string_escape"}
          found == resume(at_end, waiting)
          first == IF in_literal THEN next_token(found.s, found.line)
                   ELSE found
          pull(n) == nth_pull(first, n)
      IN  /\ in_literal =>
                /\ found.item # NoneOpt
                /\ ~found.item[1].ok
                /\ found.item[1].kind \in {"UnterminatedString",
                                           "UnterminatedTripleString"}
                /\ found.line = NoneOpt
                /\ found.s.indent_stack = indent_stack
                /\ found.wait = "no" /\ found.s.panicked = ""
          /\ \A j \in 1..(d - 1) :
                LET r == pull(j)
                IN  /\ r.item = Some(Item(0, Tok("Dedent")))
                    /\ r.s.indent_stack = SubSeq(indent_stack, 1, d - j)
                    /\ r.wait = "no" /\ r.s.panicked = ""
          /\ \A j \in d..(d + 2) :
                LET r == pull(j)
                IN  /\ r.item = NoneOpt
                    /\ Len(r.s.indent_stack) = 1
                    /\ r.wait = "no" /\ r.s.panicked = ""

\* two levels were open at the end of the input, one Dedent of line 0 is out
C3_Witness ==
   /\ closed
   /\ result = Some(Item(0, Tok("Dedent")))
   /\ Len(indent_stack) = 2

\* C4 as stated: a line start with a width below the top of the stack and
\* not on it gives Error(Dedent) first and the Ok(Dedent) of the remaining
\* popped levels right after it.
C4_ErrorComesFirst ==
   at_line_start =>
      \A raw \in InputLines :
         LET l == new_line(taken + 1, raw)
             w == l.indentation
             k == levels_above(indent_stack, w)
             first == resume(offered(raw), waiting)
             pull(n) == nth_pull(first, n)
         IN  (/\ has_statement(l)
              /\ w < stack_top(indent_stack)
              /\ ~on_stack(indent_stack, w)) =>
                /\ pull(1).item = Some(Item(l.number, Err("Dedent")))
                /\ \A j \in 2..k :
                      pull(j).item = Some(Item(l.number, Tok("Dedent")))

\* C4: a line start with a width below the top of the stack and not on it
\* pops the k levels above the width, gives Ok(Dedent) for all but one of
\* them first and exactly one Error(Dedent) last, and only then scans the
\* line, of which nothing is consumed before.
C4_ErrorComesLast ==
   at_line_start =>
      \A raw \in InputLines :
         LET l == new_line(taken + 1, raw)
             w == l.indentation
             k == levels_above(indent_stack, w)
             first == resume(offered(raw), waiting)
             pull(n) == nth_pull(first, n)
         IN  (/\ has_statement(l)
              /\ w < stack_top(indent_stack)
              /\ ~on_stack(indent_stack, w)) =>
                /\ \A j \in 1..k :
                      LET r == pull(j)
                      IN  /\ r.item =
                                Some(Item(l.number, IF j < k THEN Tok("Dedent")
                                                    ELSE Err("Dedent")))
                          /\ r.s.dedent_count = j - k
                          /\ r.line = Some(l)
                          /\ r.s.indent_stack = levels_up_to(indent_stack, w)
                /\ LET r == pull(k + 1)
                   IN  r.item = NoneOpt \/ r.item[1].kind # "Dedent"

\* a misaligned line popped two levels or more: an Ok(Dedent) of the line is
\* out and its Error(Dedent) is still to come
C4_Witness ==
   /\ dedent_count = -1
   /\ current_line # NoneOpt
   /\ result = Some(Item(current_line[1].number, Tok("Dedent")))

\* C5: at bracket depth 0, a line start with a width w below the top of the
\* stack and on it pops exactly the k levels above w; the next k pulls each
\* return Ok(Dedent) with the line's number, the counter going down to 0,
\* with nothing of the line consumed; the pull after them returns no Dedent.
C5_AlignedDedent ==
   at_line_start =>
      \A raw \in InputLines :
         LET l == new_line(taken + 1, raw)
             w == l.indentation
             k == levels_above(indent_stack, w)
             first == resume(offered(raw), waiting)
             pull(n) == nth_pull(first, n)
         IN  (/\ has_statement(l)
              /\ u32_is_zero(open_braces)
              /\ w < stack_top(indent_stack)
              /\ on_stack(indent_stack, w)) =>
                /\ \A j \in 1..k :
                      LET r == pull(j)
                      IN  /\ r.item = Some(Item(l.number, Tok("Dedent")))
                          /\ r.s.dedent_count = k - j
                          /\ r.line = Some(l)
                          /\ r.s.indent_stack = levels_up_to(indent_stack, w)
                /\ LET r == pull(k + 1)
                   IN  r.item = NoneOpt \/ r.item[1].kind # "Dedent"

\* an aligned line popped two levels or more: one Ok(Dedent) of the line is
\* out, one is still to come, and the line is at the width of the new top
C5_Witness ==
   /\ dedent_count = 1
   /\ current_line # NoneOpt
   /\ result = Some(Item(current_line[1].number, Tok("Dedent")))
   /\ stack_top(indent_stack) = current_line[1].indentation

\* C6: a pull that scans a closing bracket at bracket depth 0 leaves the
\* depth at 0, with no underflow, wrap-around or abort, and the end of the
\* line after it still gives Newline.
C6_ClosingAtDepthZero ==
   (idle /\ current_line # NoneOpt /\ dedent_count = 0
         /\ u32_is_zero(open_braces)) =>
      LET line == consume_space_to_next(current_line[1])
          r == next_token(Self, current_line)
      IN  (line.chars # <<>> /\ Head(line.chars) \in {")", "]", "}"}) =>
             /\ ~r.s.overflowed
             /\ r.s.panicked = ""
             /\ u32_is_zero(r.s.open_braces)
             /\ skip_spaces(Tail(line.chars)) = <<>> =>
                   next_token(r.s, r.line).item =
                      Some(Item(line.number, Tok("Newline")))

\* the last pull handed out one of Ok(Newline), Ok(Indent), Ok(Dedent)
layout_item(item) ==
   /\ item # NoneOpt
   /\ item[1].ok
   /\ item[1].kind \in {"Newline", "Indent", "Dedent"}

\* the step ends a pull with a return
returns == waiting' = "no" /\ status' # "panicked"

\* C7 as stated: from a state with bracket depth above 0, no pull returns
\* Newline, Indent or Dedent, and no step changes the indent stack.
C7_NoLayoutInsideBrackets ==
   [][ ~u32_is_zero(open_braces) =>
          /\ indent_stack' = indent_stack
          /\ returns => ~layout_item(result') ]_vars

\* C7: from a state with bracket depth above 0, no pull returns Newline or
\* Indent, a Dedent is only returned as the end-of-input Dedent of line 0
\* with its one level popped, and nothing else changes the indent stack.
C7_NoLayoutInsideBracketsBeforeEnd ==
   [][ ~u32_is_zero(open_braces) =>
          IF returns /\ layout_item(result')
          THEN /\ closed'
               /\ result' = Some(Item(0, Tok("Dedent")))
               /\ indent_stack' =
                     SubSeq(indent_stack, 1, Len(indent_stack) - 1)
          ELSE indent_stack' = indent_stack ]_vars

\* line 2, "x)", is scanned inside the bracket that line 1 left open: its x
\* is out, no Newline was returned for line 1, and the width of line 2,
\* which is not the top of the stack, was not evaluated
C7_Witness ==
   /\ ~u32_is_zero(open_braces)
   /\ build = "any"
   /\ result # NoneOpt
   /\ result[1].line = 2
   /\ result[1].kind = "Identifier"
   /\ current_line # NoneOpt
   /\ current_line[1].number = 2
   /\ current_line[1].chars = << ")" >>
   /\ open_braces = [hi |-> 0, lo |-> 1]
   /\ current_line[1].indentation # stack_top(indent_stack)
   /\ Len(indent_stack) = 2

\* C8: the indent stack is never empty, its bottom entry is 0, its entries
\* increase strictly from bottom to top, and the panic 'Internal indentation
\* stack error!' is not reached.
C8_IndentStackShape ==
   /\ Len(indent_stack) >= 1
   /\ indent_stack[1] = 0
   /\ \A i \in 1..(Len(indent_stack) - 1) :
         indent_stack[i] < indent_stack[i + 1]
   /\ panic # "Internal indentation stack error!"

\* three levels are open and the pull after the last push has returned
C8_Witness ==
   /\ Len(indent_stack) = 3
   /\ status = "active"
   /\ result # NoneOpt
   /\ result[1].kind = "Indent"

\* C9: a line start, the first line's included, with a statement line wider
\* than the top of the stack pushes the width and returns Ok(Indent) with
\* the line's number, nothing of the line consumed; the pull after it
\* returns no Indent.  "    x" gives Indent, Identifier(x), Newline and the
\* end-of-input Dedent.
C9_IndentPushed ==
   /\ at_line_start =>
         \A raw \in InputLines :
            LET l == new_line(taken + 1, raw)
                first == resume(offered(raw), waiting)
                pull(n) == nth_pull(first, n)
            IN  (/\ has_statement(l)
                 /\ l.indentation > stack_top(indent_stack)) =>
                   /\ first.item = Some(Item(l.number, Tok("Indent")))
                   /\ first.s.indent_stack =
                         Append(indent_stack, l.indentation)
                   /\ first.s.dedent_count = dedent_count
                   /\ first.line = Some(l)
                   /\ LET r == pull(2)
                      IN  r.item = NoneOpt \/ r.item[1].kind # "Indent"
   /\ lex_all(<< <<" ", " ", " ", " ", "x">> >>, 8).items =
         << Item(1, Tok("Indent")), Item(1, TokText("Identifier", "x")),
            Item(1, Tok("Newline")), Item(0, Tok("Dedent")) >>

\* the first line was indented: its Indent is out, its width is pushed
C9_Witness ==
   /\ result = Some(Item(1, Tok("Indent")))
   /\ current_line # NoneOpt
   /\ indent_stack = << 0, current_line[1].indentation >>

\* C10: a line start with a blank line or a line that is only a comment,
\* whatever its width, returns nothing and leaves the indent stack, the
\* dedent counter and all else as they were: the pull goes on to the next
\* line, and only the line count has advanced.
C10_BlankLinesSkipped ==
   at_line_start =>
      \A raw \in InputLines :
         LET l == new_line(taken + 1, raw)
         IN  ~has_statement(l) =>
                resume(offered(raw), waiting) =
                   Suspended([Self EXCEPT !.taken = taken + 1], "line_start")

\* line 2 was taken without an item while the stack held the width of line 1
C10_Witness ==
   /\ waiting = "line_start"
   /\ taken = 2
   /\ result = Some(Item(1, Tok("Newline")))
   /\ Len(indent_stack) = 2
   /\ dedent_count = 0

\* C11: at bracket depth 0, a pull with the cursor at the end of the line's
\* characters or at a comment returns Ok(Newline) with the line's number and
\* drops the line, changing nothing else; the line the next pull takes from
\* the source goes through the indentation rules before any of it is
\* scanned: a blank or comment line is skipped, a wider statement line gives
\* Indent, a narrower one a Dedent item, both with nothing of it consumed.
C11_EndOfLineGivesNewline ==
   (idle /\ current_line # NoneOpt /\ dedent_count = 0
         /\ u32_is_zero(open_braces)) =>
      LET line == consume_space_to_next(current_line[1])
          r == next_token(Self, current_line)
      IN  (line.chars = <<>> \/ Head(line.chars) = "#") =>
             /\ r.item = Some(Item(line.number, Tok("Newline")))
             /\ r.line = NoneOpt
             /\ r.s = Self
             /\ r.wait = "no"
             /\ ~closed =>
                   /\ next_token(r.s, r.line).wait = "line_start"
                   /\ \A raw \in InputLines :
                         LET l == new_line(taken + 1, raw)
                             top == stack_top(indent_stack)
                             n == next_token(offered(raw), r.line)
                         IN  IF ~has_statement(l)
                             THEN n.wait = "line_start"
                             ELSE IF l.indentation > top
                             THEN /\ n.item = Some(Item(l.number,
                                                        Tok("Indent")))
                                  /\ n.line = Some(l)
                             ELSE IF l.indentation < top
                             THEN /\ n.item # NoneOpt
                                  /\ n.item[1].kind = "Dedent"
                                  /\ n.item[1].line = l.number
                                  /\ n.line = Some(l)
                             ELSE n.s.indent_stack = indent_stack

\* the second line ended at depth 0 inside a block: its Newline is out and
\* the line is dropped
C11_Witness ==
   /\ idle
   /\ taken = 2
   /\ result = Some(Item(2, Tok("Newline")))
   /\ current_line = NoneOpt
   /\ Len(indent_stack) = 2

\* the pull's item, if it returned one, is neither Indent nor Dedent
no_indent_item(r) ==
   r.wait = "no" =>
      /\ r.item # NoneOpt
      /\ r.item[1].kind \notin {"Indent", "Dedent"}

\* C12: a pull with the cursor at a backslash that ends the line returns
\* nothing for it: it goes to the source for the next line and scans that
\* line as it is, whatever its width: the item it returns is of that line
\* and neither Indent nor Dedent, and the indent stack and the Dedent counter
\* stay as they were.  A backslash that ends a line inside a literal takes
\* the next line into the literal in the same way.
C12_LineJoinSkipsIndentation ==
   /\ (idle /\ current_line # NoneOpt /\ dedent_count = 0 /\ ~closed) =>
         LET line == consume_space_to_next(current_line[1])
             r == next_token(Self, current_line)
         IN  line.chars = <<"\\">> =>
                /\ r.wait = "continuation"
                /\ r.s = Self
                /\ \A raw \in InputLines :
                      LET n == resume(offered(raw), r.wait)
                      IN  /\ n.s.indent_stack = indent_stack
                          /\ n.s.dedent_count = 0
                          /\ no_indent_item(n)
                          /\ n.wait = "no" => n.item[1].line = taken + 1
   /\ (waiting = "string_escape" /\ ~closed) =>
         \A raw \in LiteralRest :
            LET n == resume(offered(raw), waiting)
            IN  /\ n.s.indent_stack = indent_stack
                /\ n.s.dedent_count = dedent_count
                /\ no_indent_item(n)

\* the first line ended with a backslash and the second, wider than the
\* top of the stack, was scanned without an Indent
C12_Witness ==
   /\ idle
   /\ taken = 2
   /\ u32_is_zero(open_braces)
   /\ result # NoneOpt
   /\ result[1].kind = "Identifier"
   /\ result[1].line = 2
   /\ current_line # NoneOpt
   /\ current_line[1].indentation > stack_top(indent_stack)

\* C13: a pull with the cursor at a backslash that has a character after it
\* on the line returns Error(BadLineContinuation) with the line's number,
\* changes nothing of the lexer, and leaves the cursor at the character
\* after the backslash, where the next pull scans.
C13_BadLineContinuation ==
   (idle /\ current_line # NoneOpt /\ dedent_count = 0) =>
      LET line == consume_space_to_next(current_line[1])
          r == next_token(Self, current_line)
      IN  (Len(line.chars) > 1 /\ Head(line.chars) = "\\") =>
             /\ r.item = Some(Item(line.number, Err("BadLineContinuation")))
             /\ r.line = Some([line EXCEPT !.chars = Tail(@)])
             /\ r.s = Self
             /\ r.wait = "no"

\* the error is out and the cursor is at the character after the backslash
C13_Witness ==
   /\ idle
   /\ result # NoneOpt
   /\ result[1] = Item(result[1].line, Err("BadLineContinuation"))
   /\ current_line # NoneOpt
   /\ current_line[1].chars = <<"x">>
   /\ current_line[1].number = result[1].line

\* more items than an input of MaxJoinLines lines gives
JoinItems == 4 * MaxJoinLines + 4

\* the item a Peekable holds, as a stream
held(slot) ==
   IF slot = NoPeek \/ slot[1] = NoneOpt THEN <<>> ELSE << slot[1][1] >>

\* the items of the InternalLexer that the consumer of the Lexer has not
\* seen yet: the ones the stages hold and the ones still to be scanned
inner_rest ==
   held(string_peeked) \o held(bytes_peeked)
      \o collect(Self, current_line, JoinItems, <<>>).items

RECURSIVE lexer_rest(_, _)
\* the items the Lexer returns from here on, up to None
lexer_rest(p, n) ==
   IF n = 0 THEN <<>>
   ELSE LET r == Lexer_next(p)
        IN  IF r.item = NoneOpt THEN <<>>
            ELSE << r.item[1] >> \o lexer_rest(r.p, n - 1)

is_literal(item) == item.ok /\ item.kind \in {"String", "Bytes"}
same_literal(a, b) == is_literal(a) /\ is_literal(b) /\ a.kind = b.kind

RECURSIVE joined(_)
\* every maximal run of Ok(String) items, and of Ok(Bytes) items, replaced by
\* one item with the contents concatenated and the first item's line number
joined(items) ==
   IF Len(items) < 2 THEN items
   ELSE IF same_literal(items[1], items[2])
   THEN joined(<< [items[1] EXCEPT !.data = @ \o items[2].data] >>
                  \o SubSeq(items, 3, Len(items)))
   ELSE << items[1] >> \o joined(Tail(items))

\* C14: what the Lexer returns is the stream of the InternalLexer with every
\* maximal run of Ok(String) items replaced by one Ok(String) that has the
\* run's contents concatenated in order and the line number of its first
\* item, and the same for Ok(Bytes); no two successive items of the Lexer
\* are both Ok(String) or both Ok(Bytes).
C14_LiteralRunsJoined ==
   status # "panicked" =>
      LET out == lexer_rest(Stages, JoinItems)
      IN  /\ out = joined(inner_rest)
          /\ \A i \in 1..(Len(out) - 1) : ~same_literal(out[i], out[i + 1])

\* three text literals on two joined lines came out as one String of line 1
C14_Witness ==
   /\ closed
   /\ taken >= 2
   /\ result # NoneOpt
   /\ result[1].ok
   /\ result[1].kind = "String"
   /\ Len(result[1].data) = 3
   /\ result[1].line = 1
   /\ string_peeked # NoPeek

\* the item at i goes on the run of literals of one kind that is before it
goes_on(items, i) == i > 1 /\ same_literal(items[i - 1], items[i])

\* the item at i is part of a run of two or more literals of one kind
in_run(items, i) ==
   goes_on(items, i) \/ (i < Len(items) /\ goes_on(items, i + 1))

\* where the item at i of the inner stream is in the output: every item
\* up to i takes one place, but for those that go on a run
place(items, i) == Cardinality({ j \in 1..i : ~goes_on(items, j) })

\* C15: every item of the InternalLexer that is not part of a run of
\* literals of one kind is returned by the Lexer as it is, with its line
\* number, at its place in the order; a run gives one item of its kind in
\* its place, so that a String next to a Bytes, and literals with any other
\* item between them, stay apart; nothing else is returned.
C15_OthersPassThrough ==
   status # "panicked" =>
      LET out == lexer_rest(Stages, JoinItems)
          ins == inner_rest
      IN  /\ Len(out) = place(ins, Len(ins))
          /\ \A i \in 1..Len(ins) :
                IF in_run(ins, i)
                THEN /\ out[place(ins, i)].ok
                     /\ out[place(ins, i)].kind = ins[i].kind
                ELSE out[place(ins, i)] = ins[i]
          /\ SelectSeq(out, LAMBDA x : ~is_literal(x))
                = SelectSeq(ins, LAMBDA x : ~is_literal(x))

\* a String was returned and the Bytes right after it is held apart from it
C15_Witness ==
   /\ closed
   /\ result # NoneOpt
   /\ result[1].ok
   /\ result[1].kind = "String"
   /\ string_peeked # NoPeek
   /\ is_token(string_peeked[1], "Bytes")

\* C16: every pull that returns gives one item or None.  The first item has
\* a line number of 1 at least; an item after one of line n >= 1 has a line
\* number of n at least, or is the Dedent of line 0 that the end of the
\* source gives; after an item of line 0 every item is that Dedent; and
\* after None nothing but None is returned.
C16_LineNumbersInOrder ==
   [][ (returns /\ result' # NoneOpt) =>
          LET item == result'[1]
              end_dedent == item = Item(0, Tok("Dedent")) /\ closed'
          IN  /\ status # "ended"
              /\ IF result = NoneOpt THEN item.line >= 1
                 ELSE IF result[1].line = 0 THEN end_dedent
                 ELSE item.line >= result[1].line \/ end_dedent ]_vars

\* a literal that began on line 1 and ended on line 2 was returned with
\* line number 1, after the source had handed out line 2
C16_Witness ==
   /\ idle
   /\ taken = 2
   /\ result # NoneOpt
   /\ result[1].ok
   /\ result[1].kind = "String"
   /\ result[1].line = 1
   /\ current_line # NoneOpt
   /\ current_line[1].number = 2

\* the last pull returned an error of one of the kinds
last_error(kinds) ==
   /\ idle
   /\ status = "active"
   /\ result # NoneOpt
   /\ ~result[1].ok
   /\ result[1].kind \in kinds

\* the pull returns None or the Dedent of line 0 of the end of the source
returns_end == result' = NoneOpt \/ result' = Some(Item(0, Tok("Dedent")))

\* C17 as stated, for the pull right after the error: after an
\* Error(UnterminatedString) or an Error(UnterminatedTripleString) a pull
\* returns nothing but an end-of-input Dedent or None.
C17_UnterminatedEndsInput ==
   [][ (last_error({"UnterminatedString", "UnterminatedTripleString"})
          /\ returns) => returns_end ]_vars

\* C17: an Error(UnterminatedTripleString), and an Error(UnterminatedString)
\* given because the source ended after a backslash inside the literal,
\* leave no current line and the source at its end: the next pull returns
\* an end-of-input Dedent or None.  An Error(UnterminatedString) given at a
\* raw end of line keeps that line with no characters left: at bracket depth
\* 0 the next pull returns the line's Newline, and the lines after it are
\* scanned.  After an error of any other kind the line is kept as well and
\* the next pull scans it.
C17_ErrorRecovery ==
   [][ /\ last_error({"UnterminatedString", "UnterminatedTripleString"}) =>
             IF current_line = NoneOpt
             THEN /\ closed
                  /\ result[1].line = taken + 1
                  /\ returns => returns_end
             ELSE /\ result[1].kind = "UnterminatedString"
                  /\ current_line[1].chars = <<>>
                  /\ current_line[1].number = result[1].line
                  /\ (returns /\ u32_is_zero(open_braces)) =>
                        result' = Some(Item(result[1].line, Tok("Newline")))
       /\ last_error({"Dedent", "InvalidSymbol", "BadLineContinuation",
                      "MissingDigits", "MalformedFloat", "MalformedImaginary",
                      "InvalidCharacter", "HexEscapeShort",
                      "MalformedUnicodeEscape", "MalformedNamedUnicodeEscape",
                      "UnknownUnicodeName", "Internal"}) =>
             /\ current_line # NoneOpt
             /\ current_line[1].number = result[1].line ]_vars

\* a short literal met the end of its line before the end of the source:
\* its error is out and the line is kept
C17_Witness ==
   /\ last_error({"UnterminatedString"})
   /\ current_line # NoneOpt
   /\ ~closed

\* the sequence begins with the other one
begins_with(seq, start) ==
   Len(seq) >= Len(start) /\ SubSeq(seq, 1, Len(start)) = start

\* the code points of the line's leading blanks
leading_codes(raw) ==
   [i \in 1..(Len(raw) - Len(skip_spaces(raw))) |-> code(raw[i])]

\* C18: a pull that meets a raw line end inside a triple-quoted literal has
\* appended one newline and takes the next line into the literal: the
\* content goes on with that line's leading blanks as they are, the literal
\* keeps the number of the line it began on, and the indent stack and the
\* Dedent counter stay as they are.  What the pull returns in the end is
\* no Newline, Indent or Dedent, and if it is a token, it is the one String
\* or Bytes with that content and the number of the literal's first line.
C18_LongLiteralTakesLines ==
   /\ (waiting = "string_line" /\ ~closed) =>
         LET lit == pending[1]
         IN  /\ lit.is_long_string
             /\ lit.token # <<>> /\ lit.token[Len(lit.token)] = 10
             /\ \A raw \in LiteralRest :
                   LET content == lit.token \o leading_codes(raw)
                       n == resume(offered(raw), waiting)
                   IN  /\ n.s.indent_stack = indent_stack
                       /\ n.s.dedent_count = dedent_count
                       /\ IF n.wait = "no"
                          THEN /\ n.item # NoneOpt
                               /\ ~layout_item(n.item)
                               /\ n.item[1].ok =>
                                     /\ n.item[1].kind =
                                           (IF lit.bytes THEN "Bytes"
                                            ELSE "String")
                                     /\ n.item[1].line = lit.first_line_number
                                     /\ begins_with(n.item[1].data, content)
                          ELSE /\ n.s.pending # NoneOpt
                               /\ n.s.pending[1].first_line_number =
                                     lit.first_line_number
                               /\ begins_with(n.s.pending[1].token, content)
   /\ (waiting \in {"line_start", "continuation"} /\ ~closed) =>
         \A raw \in InputLines :
            LET n == resume(offered(raw), waiting)
            IN  n.wait = "string_line" =>
                   n.s.pending[1].first_line_number = taken + 1

\* a literal opened on line 1 and closed on line 2 after one blank: one
\* String of line 1 with a newline and the blank
C18_Witness ==
   /\ idle
   /\ taken = 2
   /\ result = Some(Item(1, TokData("String", <<10, 32>>)))
   /\ indent_stack = <<0>>

\* a line body that opens a short text literal and has neither a closing
\* quote nor a backslash after it
open_short_literal(body) ==
   /\ body # <<>>
   /\ Head(body) = "'"
   /\ \A i \in 2..Len(body) : body[i] \notin {"'", "\\"}

\* C19: when the source ends while a triple-quoted literal is open, at a
\* raw line end or after a backslash, the pull returns
\* Error(UnterminatedTripleString) with the number of the last line taken
\* plus 1, and no line.  A short literal that meets the end of its line
\* with no closing quote and no backslash gives Error(UnterminatedString)
\* with the number of that line.
C19_UnterminatedLiterals ==
   /\ (waiting \in {"string_line", "string_escape"} /\ ~closed) =>
         LET lit == pending[1]
             found == resume(at_end, waiting)
         IN  /\ lit.line.number = taken
             /\ lit.is_long_string =>
                   /\ found.item =
                         Some(Item(taken + 1, Err("UnterminatedTripleString")))
                   /\ found.line = NoneOpt
                   /\ found.wait = "no"
             /\ ~lit.is_long_string =>
                   \A raw \in LiteralRest :
                      LET n == resume(offered(raw), waiting)
                      IN  (\A i \in 1..Len(raw) : raw[i] \notin {"'", "\\"})
                             => n.item = Some(Item(taken + 1,
                                                   Err("UnterminatedString")))
   /\ (waiting = "line_start" /\ ~closed /\ dedent_count = 0) =>
         \A raw \in InputLines :
            LET l == new_line(taken + 1, raw)
                n == resume(offered(raw), waiting)
            IN  (/\ open_short_literal(l.chars)
                 /\ l.indentation = stack_top(indent_stack)) =>
                   /\ n.item = Some(Item(l.number, Err("UnterminatedString")))
                   /\ n.line = Some([l EXCEPT !.chars = <<>>])

\* the source ended inside a triple-quoted literal that had taken two lines:
\* its error is out with line number 3
C19_Witness ==
   /\ idle
   /\ closed
   /\ taken = 2
   /\ result = Some(Item(3, Err("UnterminatedTripleString")))
   /\ current_line = NoneOpt

\* a line body that opens a short bytes literal, not raw, with a backslash
\* and then N, u or U in it
unicode_escape_in_bytes(body) ==
   /\ Len(body) >= 4
   /\ body[1] \in {"b", "B"}
   /\ body[2] = "'"
   /\ body[3] = "\\"
   /\ body[4] \in {"N", "u", "U"}

\* C20: a pull that scans a bytes literal, not raw, with a backslash
\* followed by N, u or U returns Error(InvalidCharacter) of that character
\* and no Bytes token.
C20_UnicodeEscapesRejectedInBytes ==
   (waiting = "line_start" /\ ~closed /\ dedent_count = 0) =>
      \A raw \in InputLines :
         LET l == new_line(taken + 1, raw)
             n == resume(offered(raw), waiting)
         IN  (/\ unicode_escape_in_bytes(l.chars)
              /\ l.indentation = stack_top(indent_stack)) =>
                n.item = Some(Item(l.number,
                                   ErrText("InvalidCharacter", l.chars[4])))

(***************************************************************************)
(* The scanning functions against the source text.                         *)
(***************************************************************************)
RECURSIVE joined_lines(_)
\* the text of the lines ls, each after the "\n" that ends the line before
joined_lines(ls) ==
   IF ls = <<>> THEN <<>> ELSE <<"\n">> \o Head(ls) \o joined_lines(Tail(ls))

\* the source text from the cursor on
text_ahead ==
   IF current_line # NoneOpt
   THEN skip_spaces(current_line[1].chars) \o joined_lines(lines)
   ELSE IF lines = <<>> THEN <<>>
   ELSE Head(lines) \o joined_lines(Tail(lines))

\* the pull about to run scans the text from the cursor on as a token: the
\* cursor is not at the end of its line, at a comment or at a backslash,
\* and no indentation is to be dealt with first
at_token ==
   /\ idle
   /\ dedent_count = 0
   /\ text_ahead # <<>>
   /\ text_ahead[1] \notin {"\n", "#", "\\"}
   /\ current_line = NoneOpt =>
         indent_stack = <<0>> /\ ~is_space(text_ahead[1])

\* the number of the line the cursor is on
line_ahead ==
   IF current_line # NoneOpt THEN current_line[1].number ELSE taken + 1

\* the text up to the end of its first line
RECURSIVE first_line(_)
first_line(cs) ==
   IF cs = <<>> \/ Head(cs) = "\n" THEN <<>>
   ELSE << Head(cs) >> \o first_line(Tail(cs))

\* the pull about to run
this_pull == next_token(Self, current_line)

Quotes == {"'", "\""}

\* the text cs opens a raw literal: the length of its prefix, 0 for none
raw_prefix(cs) ==
   IF Len(cs) >= 2 /\ cs[1] \in {"r", "R"} /\ cs[2] \in Quotes THEN 1
   ELSE IF /\ Len(cs) >= 3
           /\ cs[3] \in Quotes
           /\ \/ cs[1] \in {"r", "R"} /\ cs[2] \in {"b", "B"}
              \/ cs[1] \in {"b", "B"} /\ cs[2] \in {"r", "R"}
   THEN 2
   ELSE 0

\* the literal that the text cs opens after a prefix of n characters
opening(cs, n) ==
   LET quote == cs[n + 1]
       long == /\ Len(cs) >= n + 3
               /\ cs[n + 2] = quote
               /\ cs[n + 3] = quote
   IN  [bytes |-> \E i \in 1..n : cs[i] \in {"b", "B"},
        quote |-> quote,
        long |-> long,
        body |-> SubSeq(cs, n + (IF long THEN 4 ELSE 2), Len(cs))]

RECURSIVE raw_content(_, _, _, _)
\* the content of the raw literal o read off the text cs after its opening
\* quote: no escape is decoded, a backslash and the character after it are
\* both content, whatever that character is.  With ascii_only, a character
\* beyond ASCII after a backslash is invalid in a bytes literal.
raw_content(cs, o, acc, ascii_only) ==
   LET narrow(c) == IF o.bytes THEN code(c) % 256 ELSE code(c)
       open == [how |-> "open", content |-> acc, rest |-> cs, c |-> ""]
   IN  IF cs = <<>> THEN open
       ELSE IF Head(cs) = "\\"
       THEN IF Len(cs) = 1 THEN open
            ELSE IF ascii_only /\ o.bytes /\ code(cs[2]) >= 128
            THEN [how |-> "invalid", content |-> acc,
                  rest |-> Tail(Tail(cs)), c |-> cs[2]]
            ELSE raw_content(Tail(Tail(cs)), o,
                             acc \o << 92, narrow(cs[2]) >>, ascii_only)
       ELSE IF Head(cs) = "\n" /\ ~o.long THEN open
       ELSE IF Head(cs) = o.quote /\ ~o.long
       THEN [how |-> "closed", content |-> acc, rest |-> Tail(cs), c |-> ""]
       ELSE IF /\ Head(cs) = o.quote
               /\ Len(cs) >= 3
               /\ cs[2] = o.quote
               /\ cs[3] = o.quote
       THEN [how |-> "closed", content |-> acc,
             rest |-> Tail(Tail(Tail(cs))), c |-> ""]
       ELSE raw_content(Tail(cs), o, Append(acc, narrow(Head(cs))),
                        ascii_only)

\* the pull r returns the literal o with the content want, numbered n, and
\* leaves the cursor behind the closing quote
returns_literal(r, o, want, n) ==
   /\ r.item = Some(Item(n, TokData(IF o.bytes THEN "Bytes" ELSE "String",
                                    want.content)))
   /\ r.line # NoneOpt
   /\ r.line[1].chars = first_line(want.rest)

\* C21 as stated: in every raw literal, text or bytes, a backslash and the
\* character after it are both appended to the content, so that a quote
\* after a backslash does not close the literal, and a backslash at the end
\* of a line appends a backslash, a newline and the next line's leading
\* whitespace.
C21_RawKeepsEveryEscape ==
   (at_token /\ raw_prefix(text_ahead) > 0) =>
      LET o == opening(text_ahead, raw_prefix(text_ahead))
          want == raw_content(o.body, o, <<>>, FALSE)
      IN  want.how = "closed" =>
             returns_literal(this_pull, o, want, line_ahead)

\* C21, amended: as stated for a raw text literal, and for a raw bytes
\* literal as long as the character after the backslash is ASCII; a
\* backslash before a character beyond ASCII in a raw bytes literal ends
\* the pull with Error(InvalidCharacter(c)).
C21_RawKeepsEscapes ==
   (at_token /\ raw_prefix(text_ahead) > 0) =>
      LET o == opening(text_ahead, raw_prefix(text_ahead))
          want == raw_content(o.body, o, <<>>, TRUE)
          r == this_pull
      IN  /\ want.how = "closed" => returns_literal(r, o, want, line_ahead)
          /\ want.how = "invalid" =>
                /\ r.item # NoneOpt
                /\ ~r.item[1].ok
                /\ r.item[1].kind = "InvalidCharacter"
                /\ r.item[1].text = want.c

\* a raw bytes literal with an escaped quote and a backslash at the end of
\* its first line has been returned with the backslashes, the quote, the
\* newline and the second line's leading whitespace in its content
C21_Witness ==
   /\ result # NoneOpt
   /\ result[1].ok
   /\ result[1].kind = "Bytes"
   /\ result[1].data =
         << 97, 98, 99, 92, 39, 32, 92, 10, 32, 32, 9, 32, 49, 50, 51 >>

RECURSIVE digits_value(_, _)
\* the value of the digits ds in the radix
digits_value(ds, radix) ==
   IF ds = <<>> THEN 0
   ELSE digits_value(SubSeq(ds, 1, Len(ds) - 1), radix) * radix
           + (LET c == ds[Len(ds)]
              IN  IF c \in DecDigits THEN code(c) - 48
                  ELSE IF c \in LowerCase THEN code(c) - 97 + 10
                  ELSE code(c) - 65 + 10)

RECURSIVE digit_run(_, _, _)
\* the longest run of at most n characters of the set at the head of cs
digit_run(cs, n, accepted) ==
   IF n = 0 \/ cs = <<>> \/ Head(cs) \notin accepted THEN <<>>
   ELSE << Head(cs) >> \o digit_run(Tail(cs), n - 1, accepted)

RECURSIVE bytes_content(_, _, _)
\* the content of the bytes literal o read off the text cs after its
\* opening quote, for a literal of characters, octal escapes and two-digit
\* hexadecimal escapes: each contributes one byte, its value modulo 256
bytes_content(cs, o, acc) ==
   LET open == [how |-> "open", content |-> acc, rest |-> cs]
       other == [how |-> "other", content |-> acc, rest |-> cs]
       octal == digit_run(Tail(cs), 3, OctDigits)
       hex == digit_run(Tail(Tail(cs)), 2, HexDigits)
   IN  IF cs = <<>> THEN open
       ELSE IF Head(cs) = "\\"
       THEN IF Len(cs) = 1 THEN open
            ELSE IF octal # <<>>
            THEN bytes_content(SubSeq(cs, 2 + Len(octal), Len(cs)), o,
                               Append(acc, digits_value(octal, 8) % 256))
            ELSE IF cs[2] = "x" /\ Len(hex) = 2
            THEN bytes_content(SubSeq(cs, 5, Len(cs)), o,
                               Append(acc, digits_value(hex, 16)))
            ELSE other
       ELSE IF Head(cs) = "\n" /\ ~o.long THEN open
       ELSE IF Head(cs) = o.quote /\ ~o.long
       THEN [how |-> "closed", content |-> acc, rest |-> Tail(cs)]
       ELSE IF /\ Head(cs) = o.quote
               /\ Len(cs) >= 3
               /\ cs[2] = o.quote
               /\ cs[3] = o.quote
       THEN [how |-> "closed", content |-> acc,
             rest |-> Tail(Tail(Tail(cs)))]
       ELSE bytes_content(Tail(cs), o, Append(acc, code(Head(cs)) % 256))

\* the text cs opens a bytes literal that is not raw
bytes_prefix(cs) == Len(cs) >= 2 /\ cs[1] \in {"b", "B"} /\ cs[2] \in Quotes

\* C22: every value appended to a Bytes token is narrowed to one byte.  An
\* octal escape in a bytes literal contributes its value modulo 256, a
\* character its code modulo 256, and every element of a Bytes token that
\* a pull returns is in 0..255.
C22_BytesAreNarrowed ==
   idle =>
      LET r == this_pull
      IN  /\ (r.item # NoneOpt /\ r.item[1].ok /\ r.item[1].kind = "Bytes") =>
                \A i \in 1..Len(r.item[1].data) : r.item[1].data[i] \in 0..255
          /\ (at_token /\ bytes_prefix(text_ahead)) =>
                LET o == opening(text_ahead, 1)
                    want == bytes_content(o.body, o, <<>>)
                IN  want.how = "closed" =>
                       returns_literal(r, o, want, line_ahead)

\* the bytes literal with the escapes \x26, \040, \700 and \300 has been
\* returned: 448 and 192 both as the byte 192
C22_Witness ==
   /\ result # NoneOpt
   /\ result[1].ok
   /\ result[1].kind = "Bytes"
   /\ result[1].data = << 38, 32, 192, 192 >>

RECURSIVE text_of(_)
\* the characters cs as a String
text_of(cs) == IF cs = <<>> THEN "" ELSE Head(cs) \o text_of(Tail(cs))

FloatMarkers == {".", "e", "E", "j", "J"}
RadixLetters == {"b", "B", "o", "O", "x", "X"}

\* the text cs starts with a 0 that no radix letter follows
zero_prefixed(cs) ==
   /\ cs # <<>>
   /\ cs[1] = "0"
   /\ Len(cs) >= 2 => cs[2] \notin RadixLetters

\* what C23 states of the item and the line that a pull returns for the
\* text cs, which starts with a 0, on line n
zero_prefixed_as_stated(cs, item, line, n) ==
   LET run == digit_run(cs, Len(cs), DecDigits)
       after == SubSeq(cs, Len(run) + 1, Len(cs))
       zeros == \A i \in 1..Len(run) : run[i] = "0"
   IN  /\ item # NoneOpt
       /\ item[1].line = n
       /\ line # NoneOpt
       /\ IF after # <<>> /\ after[1] \in FloatMarkers
          THEN \/ /\ item[1].ok
                  /\ item[1].kind \in {"Float", "Imaginary"}
                  /\ SubSeq(item[1].text, 1, Len(run) + 1)
                        = text_of(run) \o after[1]
               \/ ~item[1].ok /\ item[1].kind = "MissingDigits"
          ELSE /\ item[1] =
                     IF zeros THEN Item(n, TokText("DecInteger", text_of(run)))
                     ELSE Item(n, Err("MalformedFloat"))
               /\ line[1].chars = first_line(after)

\* C23: a number that starts with 0 and goes on without a radix letter is
\* DecInteger of its digit run if the run is all zeros, with the float and
\* imaginary suffixes that follow it; a run with another digit is accepted
\* only right before ".", "e", "E", "j" or "J", and is Error(MalformedFloat)
\* with the whole run consumed otherwise.  Every such pull returns.
C23_ZeroPrefixedNumbers ==
   [][(at_token /\ zero_prefixed(text_ahead)) =>
         /\ status' # "panicked"
         /\ zero_prefixed_as_stated(text_ahead, result', current_line',
                                    line_ahead)]_vars

\* the same of the value that build_zero_prefixed_number computes where
\* is_digit accepts a radix of 1
zero_prefixed_computed ==
   (at_token /\ zero_prefixed(text_ahead)) =>
      zero_prefixed_as_stated(text_ahead, this_pull.item, this_pull.line,
                              line_ahead)

\* the radix that the letter after a 0 stands for
radix_of(letter) ==
   CASE letter \in {"b", "B"} -> 2
     [] letter \in {"o", "O"} -> 8
     [] letter \in {"x", "X"} -> 16

\* the text cs starts with a radix prefix
radix_prefixed(cs) == Len(cs) >= 2 /\ cs[1] = "0" /\ cs[2] \in RadixLetters

\* the length of the decimal mantissa that the text cs starts with: digits,
\* digits "." digits, or "." digits; 0 if it starts with none
mantissa(cs) ==
   LET whole == digit_run(cs, Len(cs), DecDigits)
       after == SubSeq(cs, Len(whole) + 1, Len(cs))
       fraction == digit_run(Tail(after), Len(after), DecDigits)
   IN  IF radix_prefixed(cs) THEN 0
       ELSE IF after # <<>> /\ after[1] = "."
       THEN IF whole = <<>> /\ fraction = <<>> THEN 0
            ELSE Len(whole) + 1 + Len(fraction)
       ELSE Len(whole)

\* the text cs starts with a prefix or a mantissa and an exponent marker
\* that no digit follows: how many characters these are, 0 if it does not
missing_digits(cs) ==
   LET m == mantissa(cs)
       signed == Len(cs) >= m + 2 /\ cs[m + 2] \in {"+", "-"}
       marker == m + (IF signed THEN 2 ELSE 1)
   IN  IF radix_prefixed(cs)
       THEN IF Len(cs) >= 3 /\ cs[3] \in DigitsOf(radix_of(cs[2]))
            THEN 0 ELSE 2
       ELSE IF m > 0 /\ Len(cs) > m /\ cs[m + 1] \in {"e", "E"}
       THEN IF Len(cs) > marker /\ cs[marker + 1] \in DecDigits
            THEN 0 ELSE marker
       ELSE 0

\* C24: a radix prefix, or an exponent marker with its sign, that no digit
\* of its radix follows gives Error(MissingDigits); the prefix or the marker
\* and the sign are consumed and the cursor is left right behind them.
C24_MissingDigits ==
   (at_token /\ missing_digits(text_ahead) > 0) =>
      LET r == this_pull
          k == missing_digits(text_ahead)
      IN  /\ r.item = Some(Item(line_ahead, Err("MissingDigits")))
          /\ r.line # NoneOpt
          /\ r.line[1].chars
                = first_line(SubSeq(text_ahead, k + 1, Len(text_ahead)))

\* a pull has returned Error(MissingDigits) for a binary prefix and has
\* left the cursor at the 2 behind it
C24_Witness ==
   /\ result # NoneOpt
   /\ ~result[1].ok
   /\ result[1].kind = "MissingDigits"
   /\ current_line # NoneOpt
   /\ current_line[1].chars = << "2" >>

\* the length of the radix-prefixed integer that the text cs starts with:
\* the prefix and its digits; 0 if it starts with none
radix_integer(cs) ==
   IF radix_prefixed(cs)
   THEN LET digits == digit_run(Tail(Tail(cs)), Len(cs),
                                DigitsOf(radix_of(cs[2])))
        IN  IF digits = <<>> THEN 0 ELSE 2 + Len(digits)
   ELSE 0

\* C25: a float or imaginary suffix right after a BinInteger, OctInteger or
\* HexInteger is an error and is never split off as a token of its own: a
\* "j" or "J" gives Error(MalformedImaginary), a "." or an exponent marker
\* gives Error(MalformedFloat).
C25_SuffixAfterRadixInteger ==
   (at_token /\ radix_integer(text_ahead) > 0) =>
      LET k == radix_integer(text_ahead)
          after == SubSeq(text_ahead, k + 1, Len(text_ahead))
          r == this_pull
      IN  /\ (after # <<>> /\ after[1] \in {"j", "J"}) =>
                r.item = Some(Item(line_ahead, Err("MalformedImaginary")))
          /\ (after # <<>> /\ after[1] \in {".", "e", "E"}) =>
                r.item = Some(Item(line_ahead, Err("MalformedFloat")))

NumberKinds ==
   {"DecInteger", "BinInteger", "OctInteger", "HexInteger", "Float",
    "Imaginary"}

\* the pull r returns an Ok token of one of the kinds
returns_kind(r, kinds) ==
   r.item # NoneOpt /\ r.item[1].ok /\ r.item[1].kind \in kinds

\* the pull r has consumed the first k characters of the text ahead
consumed(r, k) ==
   /\ r.line # NoneOpt
   /\ r.line[1].chars = first_line(SubSeq(text_ahead, k + 1, Len(text_ahead)))

\* C26: the lexeme of every numeric token returned as Ok is the contiguous
\* source text consumed for it, character for character, and the cursor is
\* left right behind that text.
C26_NumberLexemeIsSource ==
   (at_token /\ returns_kind(this_pull, NumberKinds)) =>
      LET r == this_pull
          k == Len(lexeme(r.item[1]))
      IN  /\ k > 0
          /\ k <= Len(text_ahead)
          /\ lexeme(r.item[1]) = text_of(SubSeq(text_ahead, 1, k))
          /\ r.item[1].line = line_ahead
          /\ consumed(r, k)

\* the hexadecimal integer with an upper-case prefix and lower-case digits
\* has been returned as it is written, the cursor at the blank behind it
C26_Witness ==
   /\ result # NoneOpt
   /\ result[1].ok
   /\ result[1].kind = "HexInteger"
   /\ result[1].text = "0X32facb7"
   /\ current_line # NoneOpt
   /\ Head(current_line[1].chars) = " "

\* the most items of the stream of an input text
ScanItems == 64

RECURSIVE lexemes(_)
\* Token::lexeme() of the items, concatenated in order
lexemes(items) ==
   IF items = <<>> THEN ""
   ELSE lexeme(Head(items)) \o lexemes(Tail(items))

RECURSIVE stripped(_, _)
\* the text cs with its whitespace and its comments removed
stripped(cs, in_comment) ==
   IF cs = <<>> THEN <<>>
   ELSE IF Head(cs) = "\n" THEN stripped(Tail(cs), FALSE)
   ELSE IF in_comment \/ Head(cs) = "#" THEN stripped(Tail(cs), TRUE)
   ELSE IF is_space(Head(cs)) THEN stripped(Tail(cs), FALSE)
   ELSE << Head(cs) >> \o stripped(Tail(cs), FALSE)

\* the items are Ok tokens other than literals with a decoded content
plain_tokens(items) ==
   \A i \in 1..Len(items) :
      items[i].ok /\ items[i].kind \notin {"String", "Bytes"}

\* C27: for an input of operators, keywords, identifiers and numbers, the
\* lexemes of the tokens of its stream, concatenated in order, are the
\* source text without its whitespace and its comments.
C27_RoundTrip ==
   (status = "fresh" /\ \A i \in 1..Len(text_ahead) : text_ahead[i] # "\\") =>
      LET all == collect(Self, current_line, ScanItems, <<>>)
      IN  (/\ all.s.panicked = ""
           /\ Len(all.items) < ScanItems
           /\ plain_tokens(all.items)) =>
             lexemes(all.items) = text_of(stripped(text_ahead, FALSE))

\* the operators of the token catalogue, as they are written
Operators ==
   { <<"(", "Lparen">>, <<")", "Rparen">>, <<"[", "Lbracket">>,
     <<"]", "Rbracket">>, <<"{", "Lbrace">>, <<"}", "Rbrace">>,
     <<",", "Comma">>, <<":", "Colon">>, <<".", "Dot">>,
     <<"...", "Ellipsis">>, <<";", "Semi">>, <<"->", "Arrow">>,
     <<"=", "Assign">>, <<"+=", "AssignPlus">>, <<"-=", "AssignMinus">>,
     <<"*=", "AssignTimes">>, <<"/=", "AssignDivide">>,
     <<"//=", "AssignDivideFloor">>, <<"%=", "AssignMod">>,
     <<"@=", "AssignAt">>, <<"&=", "AssignBitAnd">>, <<"|=", "AssignBitOr">>,
     <<"^=", "AssignBitXor">>, <<">>=", "AssignRshift">>,
     <<"<<=", "AssignLshift">>, <<"**=", "AssignExponent">>,
     <<"+", "Plus">>, <<"-", "Minus">>, <<"*", "Times">>,
     <<"**", "Exponent">>, <<"/", "Divide">>, <<"//", "DivideFloor">>,
     <<"%", "Mod">>, <<"@", "At">>, <<"<<", "Lshift">>, <<">>", "Rshift">>,
     <<"&", "BitAnd">>, <<"|", "BitOr">>, <<"^", "BitXor">>,
     <<"~", "BitNot">>, <<"<", "LT">>, <<">", "GT">>, <<"<=", "LE">>,
     <<">=", "GE">>, <<"==", "EQ">>, <<"!=", "NE">> }

\* the operators that the characters cs start with
operators_at(cs) ==
   { op \in Operators :
        /\ Len(op[1]) <= Len(cs)
        /\ op[1] = text_of(SubSeq(cs, 1, Len(op[1]))) }

\* the longest of them
longest_operator(cs) ==
   CHOOSE op \in operators_at(cs) :
      \A other \in operators_at(cs) : Len(other[1]) <= Len(op[1])

\* the cursor is at the start of an operator: not at a "." that starts a
\* number
at_operator ==
   /\ at_token
   /\ operators_at(first_line(text_ahead)) # {}
   /\ ~(/\ text_ahead[1] = "."
        /\ Len(text_ahead) >= 2
        /\ text_ahead[2] \in DecDigits)

\* C28: at every cursor position that starts an operator, the pull returns
\* the longest operator of the catalogue that the rest of the line starts
\* with and consumes exactly its characters, so that ".." gives Dot and
\* consumes one character; a "!" that no "=" follows gives
\* Error(InvalidSymbol('!')).
C28_MaximalMunch ==
   /\ at_operator =>
         LET op == longest_operator(first_line(text_ahead))
         IN  /\ this_pull.item = Some(Item(line_ahead, Tok(op[2])))
             /\ consumed(this_pull, Len(op[1]))
   /\ (/\ at_token
       /\ text_ahead[1] = "!"
       /\ ~(Len(text_ahead) >= 2 /\ text_ahead[2] = "=")) =>
         this_pull.item = Some(Item(line_ahead, ErrText("InvalidSymbol", "!")))

\* "**=" has been returned as one token from a text that "**", "*=" and
\* "*" start as well, and all three characters are consumed
C28_Witness ==
   /\ result # NoneOpt
   /\ result[1].ok
   /\ result[1].kind = "AssignExponent"
   /\ current_line # NoneOpt
   /\ current_line[1].chars = <<>>
   /\ taken = 1

RECURSIVE width_of(_, _)
\* the width of the whitespace ws, left to right from the width w: a tab
\* goes to the next multiple of 8 above w, any other character adds 1
width_of(ws, w) ==
   IF ws = <<>> THEN w
   ELSE width_of(Tail(ws),
                 IF Head(ws) = "\t" THEN ((w \div 8) + 1) * 8 ELSE w + 1)

\* C29: the indentation width of a line is computed left to right over its
\* leading whitespace: space, form feed and carriage return add 1, a tab
\* advances the width to the next multiple of 8 above it.
C29_IndentationWidth ==
   /\ lines # <<>> =>
         LET raw == Head(lines)
             ws == digit_run(raw, Len(raw), SpaceChars)
             l == lines_next(Self).line[1]
         IN  /\ l.indentation = width_of(ws, 0)
             /\ l.leading_spaces = ws
             /\ l.chars = SubSeq(raw, Len(ws) + 1, Len(raw))
   /\ current_line # NoneOpt =>
         current_line[1].indentation
            = width_of(current_line[1].leading_spaces, 0)

\* a line with two spaces and a tab before its name has been read: its
\* width is 8 and its Indent has been returned
C29_Witness ==
   /\ current_line # NoneOpt
   /\ current_line[1].leading_spaces = << " ", " ", "\t" >>
   /\ current_line[1].indentation = 8
   /\ indent_stack = << 0, 8 >>
   /\ result # NoneOpt
   /\ result[1].kind = "Indent"

\* the 33 reserved words, each with its token
ReservedWords ==
   { <<"False", "False">>, <<"None", "None">>, <<"True", "True">>,
     <<"and", "And">>, <<"as", "As">>, <<"assert", "Assert">>,
     <<"break", "Break">>, <<"class", "Class">>, <<"continue", "Continue">>,
     <<"def", "Def">>, <<"del", "Del">>, <<"elif", "Elif">>,
     <<"else", "Else">>, <<"except", "Except">>, <<"finally", "Finally">>,
     <<"for", "For">>, <<"from", "From">>, <<"global", "Global">>,
     <<"if", "If">>, <<"import", "Import">>, <<"in", "In">>, <<"is", "Is">>,
     <<"lambda", "Lambda">>, <<"nonlocal", "Nonlocal">>, <<"not", "Not">>,
     <<"or", "Or">>, <<"pass", "Pass">>, <<"raise", "Raise">>,
     <<"return", "Return">>, <<"try", "Try">>, <<"while", "While">>,
     <<"with", "With">>, <<"yield", "Yield">> }

\* the text cs starts with a literal prefix that a quote follows at once
prefix_at_quote(cs) ==
   \/ /\ Len(cs) >= 2
      /\ cs[1] \in {"u", "U", "r", "R", "b", "B"}
      /\ cs[2] \in Quotes
   \/ /\ Len(cs) >= 3
      /\ \/ cs[1] \in {"r", "R"} /\ cs[2] \in {"b", "B"}
         \/ cs[1] \in {"b", "B"} /\ cs[2] \in {"r", "R"}
      /\ cs[3] \in Quotes

\* the token of the run of characters: its keyword, or Identifier
word_token(run) ==
   IF \E w \in ReservedWords : w[1] = text_of(run)
   THEN Tok((CHOOSE w \in ReservedWords : w[1] = text_of(run))[2])
   ELSE TokText("Identifier", text_of(run))

\* the pull r returns the literal that the text cs opens, Bytes for a
\* prefix with a b and String for any other, or the error that ends it
returns_literal_item(r, cs) ==
   LET o == opening(cs, IF cs[2] \in Quotes THEN 1 ELSE 2)
   IN  /\ r.item # NoneOpt
       /\ r.item[1].line >= line_ahead
       /\ r.item[1].ok =>
             r.item[1].kind = (IF o.bytes THEN "Bytes" ELSE "String")
       /\ r.item[1].kind \notin {"Identifier", "InvalidSymbol"}

\* C30: an identifier is the maximal run of identifier-continue characters
\* from the cursor; it gives a keyword token exactly when it is, in full
\* and in the same case, one of the 33 reserved words, and Identifier(run)
\* otherwise.  A leading u, r or b, in either case, starts a literal only
\* where a quote follows the prefix at once, and an identifier otherwise.
C30_IdentifiersAndKeywords ==
   (at_token /\ text_ahead[1] \in XidStart) =>
      IF prefix_at_quote(text_ahead)
      THEN returns_literal_item(this_pull, text_ahead)
      ELSE LET run == digit_run(text_ahead, Len(text_ahead), XidContinue)
           IN  /\ this_pull.item = Some(Item(line_ahead, word_token(run)))
               /\ consumed(this_pull, Len(run))

\* a run that starts with one reserved word and ends with another has been
\* returned as one identifier
C30_Witness ==
   /\ Cardinality(ReservedWords) = 33
   /\ result # NoneOpt
   /\ result[1].ok
   /\ result[1].kind = "Identifier"
   /\ result[1].text = "defdel"

\* the item is an Error(Internal(..))
is_internal(item) ==
   item # NoneOpt /\ ~item[1].ok /\ item[1].kind = "Internal"

\* C31: Error(Internal) is unreachable: no pull returns an
\* Error(Internal(..)) item, neither from the symbol matcher, which is
\* entered only at a character, nor from the dot-prefixed number path, which
\* is entered only at a dot that a decimal digit follows.
C31_InternalUnreachable ==
   /\ ~is_internal(result)
   /\ idle => ~is_internal(this_pull.item)

\* the dot-prefixed number path has returned a Float, and the symbol
\* matcher is about to be entered at a dot that no digit follows
C31_Witness ==
   /\ result # NoneOpt
   /\ result[1].ok
   /\ result[1].kind = "Float"
   /\ SubSeq(result[1].text, 1, 1) = "."
   /\ at_token
   /\ text_ahead[1] = "."
   /\ this_pull.item # NoneOpt
   /\ this_pull.item[1].kind \in {"Dot", "Ellipsis"}

\* the text cs opens a literal that is not raw: the length of its prefix,
\* or -1
plain_prefix(cs) ==
   IF cs # <<>> /\ cs[1] \in Quotes THEN 0
   ELSE IF Len(cs) >= 2 /\ cs[1] \in {"u", "U", "b", "B"} /\ cs[2] \in Quotes
   THEN 1
   ELSE -1

\* the number of line ends in the characters cs
line_ends(cs) == Cardinality({ i \in 1..Len(cs) : cs[i] = "\n" })

\* the code point that the hexadecimal digits ds write, as an Option: None
\* if it is a surrogate or lies above 0x10FFFF
code_point(ds) ==
   LET n == Len(ds)
       hi == IF n > 4 THEN digits_value(SubSeq(ds, 1, n - 4), 16) ELSE 0
       lo == IF n > 4 THEN digits_value(SubSeq(ds, n - 3, n), 16)
             ELSE digits_value(ds, 16)
   IN  IF hi > 16 \/ (hi = 0 /\ lo \in 55296..57343) THEN NoneOpt
       ELSE Some(hi * 65536 + lo)

RECURSIVE escaped_content(_, _, _)
\* the content of the literal o, which is not raw, read off the text cs
\* after its opening quote, for a literal of characters and of the escapes
\* \x, \u and \U: \x takes two hexadecimal digits, \u four and \U eight,
\* and what follows them is content.  \u and \U are escapes of a text
\* literal only.
escaped_content(cs, o, acc) ==
   LET at(how) == [how |-> how, content |-> acc, rest |-> cs]
       letter == cs[2]
       wanted == CASE letter = "x" -> 2
                   [] letter = "u" -> 4
                   [] OTHER -> 8
       digits == digit_run(Tail(Tail(cs)), wanted, HexDigits)
       behind == SubSeq(cs, 3 + Len(digits), Len(cs))
   IN  IF cs = <<>> THEN at("open")
       ELSE IF Head(cs) = "\\"
       THEN IF Len(cs) = 1 THEN at("open")
            ELSE IF letter = "x" \/ (letter \in {"u", "U"} /\ ~o.bytes)
            THEN IF Len(digits) < wanted
                 THEN [how |-> IF letter = "x" THEN "HexEscapeShort"
                               ELSE "MalformedUnicodeEscape",
                       content |-> acc, rest |-> behind]
                 ELSE IF code_point(digits) = NoneOpt
                 THEN [how |-> "no character", content |-> acc,
                       rest |-> behind]
                 ELSE escaped_content(behind, o,
                                      Append(acc, code_point(digits)[1]))
            ELSE at("other")
       ELSE IF Head(cs) = "\n" /\ ~o.long THEN at("open")
       ELSE IF Head(cs) = o.quote /\ ~o.long
       THEN [how |-> "closed", content |-> acc, rest |-> Tail(cs)]
       ELSE IF /\ Head(cs) = o.quote
               /\ Len(cs) >= 3
               /\ cs[2] = o.quote
               /\ cs[3] = o.quote
       THEN [how |-> "closed", content |-> acc,
             rest |-> Tail(Tail(Tail(cs)))]
       ELSE escaped_content(Tail(cs), o,
               Append(acc, IF o.bytes THEN code(Head(cs)) % 256
                           ELSE code(Head(cs))))

\* the pull r returns the error kind for the literal with the body, at the
\* line where the text rest begins, and leaves the cursor at rest
returns_error(r, kind, body, rest) ==
   LET done == SubSeq(body, 1, Len(body) - Len(rest))
   IN  /\ r.item # NoneOpt
       /\ ~r.item[1].ok
       /\ r.item[1].kind = kind
       /\ r.item[1].line = line_ahead + line_ends(done)
       /\ r.line # NoneOpt
       /\ r.line[1].chars = first_line(rest)

\* C32: in a literal that is not raw, \x before fewer than two hexadecimal
\* digits gives Error(HexEscapeShort), and \u and \U before fewer than four
\* and eight give Error(MalformedUnicodeEscape); with the digits there, the
\* escape takes exactly two, four or eight of them, and the hexadecimal
\* digits that follow are content as any other character.
C32_EscapeDigits ==
   (at_token /\ plain_prefix(text_ahead) >= 0) =>
      LET o == opening(text_ahead, plain_prefix(text_ahead))
          want == escaped_content(o.body, o, <<>>)
          r == this_pull
      IN  /\ want.how = "closed" => returns_literal(r, o, want, line_ahead)
          /\ want.how \in {"HexEscapeShort", "MalformedUnicodeEscape"} =>
                returns_error(r, want.how, o.body, want.rest)

\* the literal '\u262f262f' has been returned as the character U+262F and
\* the four characters 262f
C32_Witness ==
   /\ result # NoneOpt
   /\ result[1].ok
   /\ result[1].kind = "String"
   /\ result[1].data = << 9775, 50, 54, 50, 102 >>

\* the k-th item of the iterator the DoublePeekable was made of, as next()
\* of that iterator returns it
source_item(k) == IF k <= Len(source) THEN Some(source[k]) ELSE NoneOpt

\* C33: for a DoublePeekable over a finite iterator, peek() and
\* peek_second() leave the state alone and are the first and the second
\* item that the coming calls of next() return, None where fewer are left;
\* next() returns the items of the iterator in their order, and once they
\* are all returned peek(), peek_second() and next() return None at every
\* later call.
C33_DoublePeekable ==
   LET n == Len(yielded)
   IN  /\ yielded = SubSeq(source, 1, n)
       /\ DoublePeekable_peek(peekable) = source_item(n + 1)
       /\ peek_second(peekable) = source_item(n + 2)
       /\ called.op = "peek" => called.ret = source_item(n + 1)
       /\ called.op = "peek_second" => called.ret = source_item(n + 2)
       /\ called.op = "next" =>
             IF called.ret = NoneOpt THEN n = Len(source)
             ELSE called.ret = source_item(n)

\* every item of an iterator of three different items has been returned in
\* order, and the call of next() after the last one has returned None
C33_Witness ==
   /\ source = << 1, 2, 3 >>
   /\ yielded = source
   /\ called = [op |-> "next", ret |-> NoneOpt]
   /\ DoublePeekable_peek(peekable) = NoneOpt
   /\ peek_second(peekable) = NoneOpt

\* the absolute value of the dedent counter
pending_dedents == IF dedent_count < 0 THEN -dedent_count ELSE dedent_count

\* C34: at every state of a run the Ok(Indent) items returned so far, less
\* the Ok(Dedent) and the Error(Dedent) items, are as many as the levels of
\* the indent stack above its bottom and the dedents that are still to be
\* handed out; so a stream that has ended holds as many Ok(Indent) items as
\* Ok(Dedent) and Error(Dedent) items together.
C34_IndentsBalanceDedents ==
   /\ layout_balance = (Len(indent_stack) - 1) + pending_dedents
   /\ status = "ended" => layout_balance = 0

\* a misaligned dedent over two levels is being handed out: its Ok(Dedent)
\* is returned and its Error(Dedent) is still to come
C34_Witness ==
   /\ dedent_count = -1
   /\ result # NoneOpt
   /\ result[1].ok
   /\ result[1].kind = "Dedent"
   /\ layout_balance >= 1
   /\ layout_balance = Len(indent_stack)

\* the last pull returned the Error(Dedent) of the line the cursor is on
at_misaligned ==
   /\ idle
   /\ result # NoneOpt
   /\ ~result[1].ok
   /\ result[1].kind = "Dedent"
   /\ dedent_count = 0
   /\ current_line # NoneOpt

RECURSIVE after_newline(_, _)
\* the pull after the one that returns the next Ok(Newline), as an Option:
\* r and up to n pulls after it are looked at
after_newline(r, n) ==
   IF n = 0 \/ r.wait # "no" \/ r.s.panicked # "" \/ r.item = NoneOpt
   THEN NoneOpt
   ELSE IF r.item[1].ok /\ r.item[1].kind = "Newline"
   THEN Some(next_token(r.s, r.line))
   ELSE after_newline(next_token(r.s, r.line), n - 1)

\* the width of the line numbered n of the source text
width_of_line(n) == new_line(n, lines[n - taken]).indentation

\* the first item after the line the cursor is on is of a line as wide as
\* that line
same_width_follows ==
   LET a == after_newline(this_pull, ScanItems)
   IN  /\ a # NoneOpt
       /\ a[1].wait = "no"
       /\ a[1].item # NoneOpt
       /\ a[1].item[1].line > current_line[1].number
       /\ width_of_line(a[1].item[1].line) = current_line[1].indentation

\* C35: a misaligned dedent to the width w does not push w: the top of the
\* indent stack is then the largest of its entries smaller than w, and w
\* is none of them.  The next line with a statement, if it has the width w
\* again, is an increase over that top: it gives Ok(Indent) and pushes w.
C35_MisalignedWidthNotPushed ==
   at_misaligned =>
      LET w == current_line[1].indentation
          a == after_newline(this_pull, ScanItems)
      IN  /\ ~on_stack(indent_stack, w)
          /\ stack_top(indent_stack) < w
          /\ \A i \in 1..Len(indent_stack) :
                indent_stack[i] <= stack_top(indent_stack)
          /\ same_width_follows =>
                /\ a[1].item[1] = Item(a[1].item[1].line, Tok("Indent"))
                /\ a[1].s.indent_stack = Append(indent_stack, w)

\* the Error(Dedent) of a line has been returned, and the next line with a
\* statement has the same width and gives Ok(Indent)
C35_Witness ==
   /\ at_misaligned
   /\ same_width_follows
   /\ Len(indent_stack) >= 2
   /\ after_newline(this_pull, ScanItems)[1].item[1].kind = "Indent"

\* the step sets the dedent counter: at a line start, no line held, and
\* outside brackets
dedents_set_at_line_start ==
   (dedent_count = 0 /\ dedent_count' # 0) =>
      /\ current_line = NoneOpt
      /\ u32_is_zero(open_braces)
      /\ u32_is_zero(open_braces')

\* the step from a state with a dedent to hand out is a pull that hands out
\* one and leaves the rest of the lexer alone
dedents_drained ==
   dedent_count # 0 =>
      /\ dedent_count' = dedent_count + (IF dedent_count < 0 THEN 1 ELSE -1)
      /\ status' = "active"
      /\ waiting' = "no"
      /\ result' # NoneOpt
      /\ result'[1].kind = "Dedent"
      /\ result'[1].ok = (dedent_count # -1)
      /\ current_line' = current_line
      /\ indent_stack' = indent_stack
      /\ open_braces' = open_braces
      /\ lines' = lines
      /\ taken' = taken

\* C36: the dedent counter is other than zero only while a line is held;
\* it is set only at the start of a line and at bracket depth 0; and every
\* pull at a counter other than zero moves it one step towards zero, from
\* -1 to 0, returns one item, and leaves the cursor of the line, the
\* indent stack and the bracket depth as they were.
C36_DedentCounter ==
   [][/\ dedent_count' # 0 => current_line' # NoneOpt
      /\ dedents_set_at_line_start
      /\ dedents_drained]_vars

\* the first of the two Ok(Dedent) of a line has been returned: the counter
\* went from 2 to 1 and the line is held with its cursor at its first
\* character
C36_Witness ==
   /\ dedent_count = 1
   /\ result # NoneOpt
   /\ result[1].ok
   /\ result[1].kind = "Dedent"
   /\ current_line # NoneOpt
   /\ current_line[1].chars # <<>>
   /\ u32_is_zero(open_braces)

RECURSIVE name_run(_)
\* the characters of cs before its first "}" and before the end of its line
name_run(cs) ==
   IF cs = <<>> \/ Head(cs) \in {"}", "\n"} THEN <<>>
   ELSE << Head(cs) >> \o name_run(Tail(cs))

\* the errors of an escape that cannot be decoded
EscapeErrors ==
   {"HexEscapeShort", "MalformedUnicodeEscape", "MalformedNamedUnicodeEscape",
    "UnknownUnicodeName", "InvalidCharacter"}

RECURSIVE escape_failure(_, _, _)
\* the first escape of the literal o that cannot be decoded, read off the
\* text cs after the opening quote: its error and the text behind the part
\* of the escape that was read.  Other ends: "closed" at the closing quote,
\* "open" at the end of the text or of the line of a short literal,
\* "other" at a backslash that ends a line, "no character" at a \u or \U
\* whose value is no character.
escape_failure(cs, o, raw) ==
   LET stop(how, rest) == [how |-> how, rest |-> rest]
       c == cs[2]
       after == SubSeq(cs, 3, Len(cs))
       behind(n) == SubSeq(after, n + 1, Len(after))
       octal == digit_run(Tail(cs), 3, OctDigits)
       wanted == CASE c = "x" -> 2
                   [] c = "u" -> 4
                   [] OTHER -> 8
       hex == digit_run(after, wanted, HexDigits)
       name == name_run(Tail(after))
       closing == behind(1 + Len(name))
   IN  IF cs = <<>> THEN stop("open", cs)
       ELSE IF Head(cs) = "\\"
       THEN IF Len(cs) = 1 \/ c = "\n" THEN stop("other", cs)
            ELSE IF o.bytes /\ code(c) >= 128 /\ (raw \/ c # "x")
            THEN stop("InvalidCharacter", after)
            ELSE IF raw THEN escape_failure(after, o, raw)
            ELSE IF c \in OctDigits
            THEN escape_failure(SubSeq(cs, 2 + Len(octal), Len(cs)), o, raw)
            ELSE IF c = "x" \/ (c \in {"u", "U"} /\ ~o.bytes)
            THEN IF Len(hex) < wanted
                 THEN stop(IF c = "x" THEN "HexEscapeShort"
                           ELSE "MalformedUnicodeEscape",
                           behind(Len(hex)))
                 ELSE IF code_point(hex) = NoneOpt
                 THEN stop("no character", behind(Len(hex)))
                 ELSE escape_failure(behind(Len(hex)), o, raw)
            ELSE IF c = "N" /\ ~o.bytes
            THEN IF after = <<>> \/ after[1] # "{"
                 THEN stop("MalformedNamedUnicodeEscape", after)
                 ELSE IF closing = <<>> \/ closing[1] # "}"
                 THEN stop("MalformedNamedUnicodeEscape", closing)
                 ELSE IF unicode_names_character(text_of(name)) = NoneOpt
                 THEN stop("UnknownUnicodeName", Tail(closing))
                 ELSE escape_failure(Tail(closing), o, raw)
            ELSE escape_failure(after, o, raw)
       ELSE IF Head(cs) = "\n" /\ ~o.long THEN stop("open", cs)
       ELSE IF Head(cs) = o.quote /\ ~o.long THEN stop("closed", Tail(cs))
       ELSE IF /\ Head(cs) = o.quote
               /\ Len(cs) >= 3
               /\ cs[2] = o.quote
               /\ cs[3] = o.quote
       THEN stop("closed", Tail(Tail(Tail(cs))))
       ELSE escape_failure(Tail(cs), o, raw)

\* the text ahead opens a literal: the length of its prefix, or -1
literal_prefix(cs) ==
   IF raw_prefix(cs) > 0 THEN raw_prefix(cs) ELSE plain_prefix(cs)

\* the failure of the first escape of the literal at the cursor that cannot
\* be decoded, with the body of the literal
failure_ahead ==
   LET o == opening(text_ahead, literal_prefix(text_ahead))
   IN  [body |-> o.body,
        at |-> escape_failure(o.body, o, raw_prefix(text_ahead) > 0)]

\* the cursor is at a literal with an escape that cannot be decoded
at_failing_escape ==
   /\ at_token
   /\ literal_prefix(text_ahead) >= 0
   /\ failure_ahead.at.how \in EscapeErrors

\* C37: an escape of a literal that cannot be decoded (HexEscapeShort,
\* MalformedUnicodeEscape, MalformedNamedUnicodeEscape, UnknownUnicodeName,
\* InvalidCharacter) gives its error in place of the literal: no String or
\* Bytes token is returned for it and the content read so far is in no
\* item; the lexer is left outside the literal with the cursor on the same
\* line right behind the part of the escape that was read, and the next
\* pull scans on from there as at any other place of a line.
C37_FailedEscapeEndsLiteral ==
   at_failing_escape =>
      LET f == failure_ahead
          r == this_pull
      IN  /\ r.wait = "no"
          /\ returns_error(r, f.at.how, f.body, f.at.rest)
          /\ r.s.pending = NoneOpt
          /\ r.s.dedent_count = 0
          /\ r.s.indent_stack = indent_stack
          /\ r.s.open_braces = open_braces
          /\ r.item[1].data = <<>>
          /\ (/\ f.at.rest # <<>>
              /\ f.at.rest[1] \in XidStart
              /\ ~prefix_at_quote(f.at.rest)) =>
                LET run == digit_run(f.at.rest, Len(f.at.rest), XidContinue)
                    n == next_token(r.s, r.line)
                IN  /\ n.item = Some(Item(r.item[1].line, word_token(run)))
                    /\ n.line # NoneOpt
                    /\ n.line[1].chars =
                          first_line(SubSeq(f.at.rest, Len(run) + 1,
                                            Len(f.at.rest)))

\* the error of a \x with no digit behind it has been returned in place of
\* its literal, and the pull about to run returns the name behind the
\* escape
C37_Witness ==
   /\ result # NoneOpt
   /\ ~result[1].ok
   /\ result[1].kind = "HexEscapeShort"
   /\ current_line # NoneOpt
   /\ current_line[1].chars = << "g", "+", "1" >>
   /\ this_pull.item = Some(Item(1, TokText("Identifier", "g")))

\* the cursor is at a text literal that is not raw
at_text_literal ==
   /\ at_token
   /\ plain_prefix(text_ahead) >= 0
   /\ ~opening(text_ahead, plain_prefix(text_ahead)).bytes

\* C38: in a text literal that is not raw, a \u with four and a \U with
\* eight hexadecimal digits never aborts the pull, whatever value the
\* digits write, a surrogate (D800 to DFFF) and a value above 10FFFF
\* included: the pull returns a token or an error item.
C38_UnicodeEscapesNeverAbort ==
   at_text_literal =>
      LET r == this_pull
      IN  /\ r.s.panicked = ""
          /\ r.wait = "no"
          /\ r.item # NoneOpt

\* the pulls that abort at a text literal are those whose first escape
\* that is not decoded is a \u or \U with all its digits and a value that
\* is no character: char::from_u32(v) is None there
unicode_escapes_computed ==
   (at_text_literal /\ failure_ahead.at.how # "other") =>
      (this_pull.s.panicked # "" <=> failure_ahead.at.how = "no character")


RECURSIVE Lexer_pulls(_, _, _)
\* what the next k calls of next() return, from the lexer state s holding
\* the line current_line_opt
Lexer_pulls(s, current_line_opt, k) ==
   IF k = 0 THEN <<>>
   ELSE LET r == Lexer_next_token(s, current_line_opt)
        IN  << r.item >> \o Lexer_pulls(r.s, r.line, k - 1)

\* the Lexer of lib.rs is at the end of its input inside a block
at_end_in_block ==
   /\ status = "active"
   /\ lines = <<>>
   /\ current_line = NoneOpt
   /\ Len(indent_stack) > 1

\* C39: at the end of the input with an indent stack of depth d > 1 the
\* Lexer of lib.rs returns d-1 items (0, "** DEDENT **") and then None: the
\* stream ends once the pending dedents are drained
C39_LegacyDedentsDrain ==
   at_end_in_block =>
      LET d == Len(indent_stack)
      IN  Lexer_pulls(Self, current_line, d) =
             [i \in 1..d |->
                IF i < d THEN Some(Item(0, Lexer_Ok("** DEDENT **")))
                ELSE NoneOpt]

\* what the code does there: every further call returns the same item
\* (0, "** DEDENT **"), the indent stack is never popped and no call
\* returns None
legacy_dedents_never_end ==
   at_end_in_block =>
      /\ Lexer_pulls(Self, current_line, MaxItems) =
            [i \in 1..MaxItems |-> Some(Item(0, Lexer_Ok("** DEDENT **")))]
      /\ Lexer_next_token(Self, current_line).s = Self

====
